---------------------------- MODULE Spec2Model ----------------------------
(***************************************************************************)
(* Payroll record state machine of kyuyo-system (backend/app/api/v1/       *)
(* payroll.py) together with the calculation services it calls             *)
(* (backend/app/services).  Every request handler is one action: FastAPI's *)
(* get_db dependency commits the session when the handler returns and      *)
(* rolls it back when the handler raises, so a failing request leaves the  *)
(* tables untouched and only produces a response.                          *)
(*                                                                         *)
(* Conventions.  A nullable column is a sequence of length 0 (None) or 1   *)
(* (the value).  Dates are day numbers.  Decimal rates (Numeric(6,5)) are  *)
(* integers in units of 1/100000.  math.floor over a float product is      *)
(* modelled as the floor of the exact rational product.  Japanese item     *)
(* names are transliterated.  Primary keys are positions in the table      *)
(* sequences (autoincrement ids).                                          *)
(***************************************************************************)
EXTENDS Integers, Sequences, FiniteSets, TLC

None == <<>>
Some(v) == <<v>>
IsNone(x) == x = <<>>
Val(x) == x[1]
\* Python "x or d" for an Optional[int] column.
OrElse(x, d) == IF IsNone(x) \/ Val(x) = 0 THEN d ELSE Val(x)

Max(a, b) == IF a >= b THEN a ELSE b
Min(a, b) == IF a <= b THEN a ELSE b

--------------------------------------------------------------------------
(* Bounds of the model *)

\* at most this many rows in payroll_records
MaxRecords == 3

\* at most this many rows in year_end_adjustment_histories
MaxAdjustmentHistories == 5

\* at most this many rows in insurance_rates
MaxRates == 2

\* at most this many rows in income_tax_tables
MaxTaxRows == 1

--------------------------------------------------------------------------
(* Master data read by the handlers.  None of the modelled handlers writes *)
(* these tables.                                                           *)

\* users; _roles is filled by get_current_user_with_roles
Users ==
    { [id |-> 1, company_id |-> 1, is_super_admin |-> FALSE, roles |-> {"admin"},
       email |-> "admin@a.example"],
      [id |-> 2, company_id |-> 1, is_super_admin |-> FALSE, roles |-> {"accountant"},
       email |-> "accountant@a.example"],
      [id |-> 3, company_id |-> 1, is_super_admin |-> FALSE, roles |-> {"employee"},
       email |-> "one@a.example"],
      [id |-> 4, company_id |-> 2, is_super_admin |-> TRUE,  roles |-> {},
       email |-> "root@b.example"] }

User(id) == CHOOSE u \in Users : u.id = id

Company ==
    [company_id |-> 1, health_insurance_prefecture |-> Some("Tokyo"),
     care_insurance_applicable |-> TRUE]

\* payroll_periods rows (company 1 owns period 1)
Periods ==
    << [id |-> 1, company_id |-> 1, year_month |-> 202405,
        start_date |-> 100, end_date |-> 130, payment_date |-> 155] >>

SalarySettings(ms, dr, hr, ba, ca, mph) ==
    [monthly_salary |-> ms, daily_rate |-> dr, hourly_rate |-> hr,
     base_amount |-> ba, commission_amount |-> ca,
     monthly_prescribed_hours |-> mph]

\* employees rows of company 1 (is_deleted = false)
Employees ==
    << [id |-> 1, company_id |-> 1, salary_type |-> "monthly",
        salary_settings |-> SalarySettings(300000, 0, 0, 0, 0, 160),
        tax_category |-> "kou", dependents_count |-> 1,
        social_insurance_enrolled |-> TRUE,
        pension_insurance_enrolled |-> TRUE,
        employment_insurance_enrolled |-> TRUE,
        resident_tax_monthly_amount |-> None, birth_date |-> None,
        email |-> Some("one@a.example")],
       [id |-> 2, company_id |-> 1, salary_type |-> "hourly",
        salary_settings |-> SalarySettings(0, 0, 1200, 0, 0, 160),
        tax_category |-> "otsu", dependents_count |-> 0,
        social_insurance_enrolled |-> TRUE,
        pension_insurance_enrolled |-> FALSE,
        employment_insurance_enrolled |-> TRUE,
        resident_tax_monthly_amount |-> Some(8000),
        birth_date |-> Some(155 - 45 * 365 - 20),
        email |-> Some("two@a.example")] >>

Minutes(w, s, n, sh, nsh, no, nh, noh) ==
    [overtime_within_statutory_minutes |-> w, overtime_statutory_minutes |-> s,
     night_minutes |-> n, statutory_holiday_minutes |-> sh,
     non_statutory_holiday_minutes |-> nsh, night_overtime_minutes |-> no,
     night_holiday_minutes |-> nh, night_overtime_holiday_minutes |-> noh]

Attendance(emp, sw, wd, ab, twm, mins) ==
    [employee_id |-> emp, year_month |-> 202405, statutory_work_days |-> sw,
     work_days |-> wd, absence_days |-> ab, total_work_minutes |-> twm,
     minutes |-> mins]

\* the attendance_records row an employee may have for the period when
\* Calculate runs (the attendance API rewrites it between runs); None = no row
AttendanceChoices(emp) ==
    IF emp = 1
    THEN { None,
           Some(Attendance(1, Some(20), Some(0), 25, Some(0),
                           Minutes(0, 0, 0, 0, 0, 0, 0, 0))) }
    ELSE { Some(Attendance(2, None, Some(20), 0, Some(9600),
                           Minutes(0, 4200, 0, 0, 0, 0, 0, 60))) }

\* employee_allowances joined with allowance_types; item_code is the
\* formatted f"allowance_{at.code}"
AllowanceRows ==
    << [employee_id |-> 2, amount |-> 10000, effective_from |-> 1,
        effective_to |-> None, code |-> "housing", item_code |-> "allowance_housing", name |-> "housing allowance",
        is_taxable |-> TRUE, is_social_insurance_target |-> TRUE,
        is_employment_insurance_target |-> FALSE, is_active |-> TRUE],
       [employee_id |-> 2, amount |-> 5000, effective_from |-> 1,
        effective_to |-> Some(50), code |-> "old", item_code |-> "allowance_old", name |-> "expired allowance",
        is_taxable |-> TRUE, is_social_insurance_target |-> TRUE,
        is_employment_insurance_target |-> TRUE, is_active |-> TRUE],
       [employee_id |-> 2, amount |-> 7000, effective_from |-> 1,
        effective_to |-> None, code |-> "off", item_code |-> "allowance_off", name |-> "inactive allowance",
        is_taxable |-> TRUE, is_social_insurance_target |-> TRUE,
        is_employment_insurance_target |-> TRUE, is_active |-> FALSE] >>

CommuteRows ==
    << [employee_id |-> 2, monthly_cost |-> Some(20000),
        non_taxable_limit |-> Some(15000), effective_from |-> 1,
        effective_to |-> None] >>

\* insurance_rates; company_id None = global row
InsuranceRates ==
    { [id |-> 1, company_id |-> None, insurance_type |-> "health",
       valid_from |-> 1, valid_to |-> None, prefecture |-> Some("Tokyo"),
       employee_rate |-> 5000, care_insurance_rate |-> Some(800)],
      [id |-> 2, company_id |-> Some(1), insurance_type |-> "health",
       valid_from |-> 1, valid_to |-> None, prefecture |-> Some("Tokyo"),
       employee_rate |-> 4985, care_insurance_rate |-> Some(800)],
      [id |-> 3, company_id |-> None, insurance_type |-> "health",
       valid_from |-> 1, valid_to |-> None, prefecture |-> Some("Osaka"),
       employee_rate |-> 5100, care_insurance_rate |-> None],
      [id |-> 4, company_id |-> None, insurance_type |-> "pension",
       valid_from |-> 1, valid_to |-> Some(90), prefecture |-> None,
       employee_rate |-> 9000, care_insurance_rate |-> None],
      [id |-> 5, company_id |-> None, insurance_type |-> "pension",
       valid_from |-> 91, valid_to |-> None, prefecture |-> None,
       employee_rate |-> 9150, care_insurance_rate |-> None],
      [id |-> 6, company_id |-> None, insurance_type |-> "employment",
       valid_from |-> 1, valid_to |-> None, prefecture |-> None,
       employee_rate |-> 600, care_insurance_rate |-> None] }

\* income_tax_tables
IncomeTaxTables ==
    { [id |-> 1, table_type |-> "monthly_kou", valid_from |-> 1, valid_to |-> None,
       income_from |-> 240000, income_to |-> Some(260000),
       dependents_count |-> 1, tax_amount |-> 5740],
      [id |-> 2, table_type |-> "monthly_kou", valid_from |-> 1, valid_to |-> None,
       income_from |-> 200000, income_to |-> Some(240000),
       dependents_count |-> 1, tax_amount |-> 3900],
      [id |-> 3, table_type |-> "monthly_kou", valid_from |-> 1, valid_to |-> None,
       income_from |-> 240000, income_to |-> Some(260000),
       dependents_count |-> 0, tax_amount |-> 7350] }


--------------------------------------------------------------------------
(* services/overtime_calculator.py *)

MONTHLY_OVERTIME_THRESHOLD == 3600

\* the base hourly rates and the minute counts the premium computation is
\* tabulated for
PremiumBases == {965, 1200, 1875, 2400}
PremiumMinutes == {0, 30, 60, 90, 120, 240, 480, 600, 3600}

\* the <<base_hourly_rate, minutes, percent>> of PremiumBases and
\* PremiumMinutes for which the double-precision product
\* (base_hourly_rate / 60) * minutes * multiplier falls just below the
\* integer it equals exactly, so that math.floor returns one less (the
\* quotient 965 / 60 is rounded down to double precision)
FloorsShort ==
    { <<965, 60, 100>>, <<965, 60, 60>>,
      <<965, 120, 100>>, <<965, 120, 150>>, <<965, 120, 50>>, <<965, 120, 60>>,
      <<965, 240, 100>>, <<965, 240, 125>>, <<965, 240, 150>>, <<965, 240, 25>>,
      <<965, 240, 50>>, <<965, 240, 60>>, <<965, 240, 85>>,
      <<965, 480, 100>>, <<965, 480, 125>>, <<965, 480, 150>>, <<965, 480, 25>>,
      <<965, 480, 50>>, <<965, 480, 60>>, <<965, 480, 85>>,
      <<965, 3600, 100>>, <<965, 3600, 125>>, <<965, 3600, 150>>, <<965, 3600, 25>>,
      <<965, 3600, 50>>, <<965, 3600, 60>>, <<965, 3600, 85>> }

\* floor(base_hourly_rate / 60 * minutes * percent / 100) in exact arithmetic
ExactPremium(base_hourly_rate, minutes, percent) ==
    (base_hourly_rate * minutes * percent) \div 6000

\* math.floor(rate * minutes * multiplier) with the float
\* rate = base_hourly_rate / 60 and the multiplier given in percent; defined
\* for the tabulated rates and minutes only
PremiumPay(base_hourly_rate, minutes, percent) ==
    CASE base_hourly_rate \in PremiumBases /\ minutes \in PremiumMinutes ->
            ExactPremium(base_hourly_rate, minutes, percent)
               - (IF <<base_hourly_rate, minutes, percent>> \in FloorsShort THEN 1 ELSE 0)

OvertimeCalculate(base_hourly_rate, attendance) ==
    LET statutory_minutes == attendance.overtime_statutory_minutes
        over_60h_minutes == Max(0, statutory_minutes - MONTHLY_OVERTIME_THRESHOLD)
        normal_overtime_minutes == statutory_minutes - over_60h_minutes
        r == [overtime_within_statutory_pay |->
                  PremiumPay(base_hourly_rate, attendance.overtime_within_statutory_minutes, 100),
              overtime_statutory_pay |->
                  PremiumPay(base_hourly_rate, normal_overtime_minutes, 125),
              over60h_premium_pay |->
                  PremiumPay(base_hourly_rate, over_60h_minutes, 150),
              night_pay |->
                  PremiumPay(base_hourly_rate, attendance.night_minutes, 25),
              statutory_holiday_pay |->
                  PremiumPay(base_hourly_rate, attendance.statutory_holiday_minutes, 135),
              non_statutory_holiday_pay |->
                  PremiumPay(base_hourly_rate, attendance.non_statutory_holiday_minutes, 100),
              night_overtime_pay |->
                  PremiumPay(base_hourly_rate, attendance.night_overtime_minutes, 50),
              night_holiday_pay |->
                  PremiumPay(base_hourly_rate, attendance.night_holiday_minutes, 60),
              night_overtime_holiday_pay |->
                  PremiumPay(base_hourly_rate, attendance.night_overtime_holiday_minutes, 85)]
    IN  r @@
        [total_overtime_pay |->
            r.overtime_within_statutory_pay + r.overtime_statutory_pay
            + r.over60h_premium_pay + r.night_pay + r.statutory_holiday_pay
            + r.non_statutory_holiday_pay + r.night_overtime_pay
            + r.night_holiday_pay + r.night_overtime_holiday_pay]

--------------------------------------------------------------------------
(* services/insurance_calculator.py *)

\* math.floor(gross_salary * float(rate)), rate in units of 1/100000
\* (split so that no intermediate product leaves the 32-bit range)
FloorRate(gross_salary, rate) ==
    LET gh == gross_salary \div 100000
        gl == gross_salary % 100000
        rh == rate \div 1000
        rl == rate % 1000
    IN  gh * rate + ((gl * rh * 10 + ((gl * rl) \div 100)) \div 1000)

RateMatches(r, insurance_type, target_date, prefecture) ==
    /\ r.insurance_type = insurance_type
    /\ r.valid_from <= target_date
    /\ (IsNone(r.valid_to) \/ Val(r.valid_to) >= target_date)
    /\ (insurance_type = "health" /\ ~IsNone(prefecture)
            => r.prefecture = prefecture)

\* ORDER BY valid_from DESC LIMIT 1: any row with the greatest valid_from
FirstByValidFromDesc(rows) ==
    { r \in rows : \A q \in rows : q.valid_from <= r.valid_from }

GetRateGlobalFirst(rates, company_id, insurance_type, target_date, prefecture) ==
    LET matching == { r \in rates :
                        RateMatches(r, insurance_type, target_date, prefecture) }
        company_rows == { r \in matching : r.company_id = Some(company_id) }
        global_rows == { r \in matching : IsNone(r.company_id) }
    IN  IF global_rows # {}
        THEN { Some(r) : r \in FirstByValidFromDesc(global_rows) }
        ELSE IF company_rows # {}
             THEN { Some(r) : r \in FirstByValidFromDesc(company_rows) }
             ELSE { None }

\* the rows _get_rate may return: {None} when nothing matches
GetRate(rates, company_id, insurance_type, target_date, prefecture) ==
    LET matching == { r \in rates :
                        RateMatches(r, insurance_type, target_date, prefecture) }
        company_rows == { r \in matching : r.company_id = Some(company_id) }
        global_rows == { r \in matching : IsNone(r.company_id) }
    IN  IF company_rows # {}
        THEN { Some(r) : r \in FirstByValidFromDesc(company_rows) }
        ELSE IF global_rows # {}
             THEN { Some(r) : r \in FirstByValidFromDesc(global_rows) }
             ELSE { None }

\* calculate_health_insurance for the looked-up rate
HealthInsurance(company, rate, gross_salary, employee_age) ==
    IF IsNone(rate)
    THEN [health_insurance |-> 0, care_insurance |-> 0]
    ELSE [health_insurance |-> FloorRate(gross_salary, Val(rate).employee_rate),
          care_insurance |->
              IF /\ ~IsNone(employee_age) /\ Val(employee_age) # 0
                 /\ 40 <= Val(employee_age) /\ Val(employee_age) < 65
                 /\ company.care_insurance_applicable
                 /\ ~IsNone(Val(rate).care_insurance_rate)
                 /\ Val(Val(rate).care_insurance_rate) # 0
              THEN FloorRate(gross_salary, Val(Val(rate).care_insurance_rate))
              ELSE 0]

\* calculate_pension_insurance / calculate_employment_insurance
RateInsurance(rate, gross_salary) ==
    IF IsNone(rate) THEN 0 ELSE FloorRate(gross_salary, Val(rate).employee_rate)

--------------------------------------------------------------------------
(* services/tax_calculator.py *)

TableType(tax_category, is_monthly) ==
    IF tax_category = "kou"
    THEN (IF is_monthly THEN "monthly_kou" ELSE "daily_kou")
    ELSE IF tax_category = "otsu" THEN "otsu" ELSE "hei"

TaxRowMatchesUpperInclusive(t, table_type, taxable_income, dependents_count, target_date) ==
    /\ t.table_type = table_type
    /\ t.valid_from <= target_date
    /\ t.income_from <= taxable_income
    /\ t.dependents_count = dependents_count
    /\ (IsNone(t.valid_to) \/ Val(t.valid_to) >= target_date)
    /\ (IsNone(t.income_to) \/ Val(t.income_to) >= taxable_income)

\* the WHERE clauses of the income_tax_tables query
TaxRowMatches(t, table_type, taxable_income, dependents_count, target_date) ==
    /\ t.table_type = table_type
    /\ t.valid_from <= target_date
    /\ t.income_from <= taxable_income
    /\ t.dependents_count = dependents_count
    /\ (IsNone(t.valid_to) \/ Val(t.valid_to) >= target_date)
    /\ (IsNone(t.income_to) \/ Val(t.income_to) > taxable_income)

\* the amounts calculate_income_tax may return (ORDER BY income_from DESC
\* LIMIT 1 picks any row with the greatest income_from)
CalculateIncomeTax(tables, taxable_income, tax_category, dependents_count, target_date, is_monthly) ==
    LET matching == { t \in tables :
                        TaxRowMatches(t, TableType(tax_category, is_monthly),
                                      taxable_income, dependents_count, target_date) }
        first == { t \in matching : \A q \in matching : q.income_from <= t.income_from }
    IN  IF first # {}
        THEN { t.tax_amount : t \in first }
        ELSE IF tax_category \in {"otsu", "hei"}
             THEN { (taxable_income * 358) \div 10000 }
             ELSE { 0 }

--------------------------------------------------------------------------
(* services/payroll_calculator.py *)

DEFAULT_MONTHLY_HOURS == 160

\* one dict of calc_result["items"]
ItemData(item_type, item_code, item_name, amount, is_taxable, is_social_insurance_target, is_employment_insurance_target, notes) ==
    [item_type |-> item_type, item_code |-> item_code, item_name |-> item_name,
     amount |-> amount, is_taxable |-> is_taxable,
     is_social_insurance_target |-> is_social_insurance_target,
     is_employment_insurance_target |-> is_employment_insurance_target,
     notes |-> notes]

DeductionItem(item_code, item_name, amount) ==
    ItemData("deduction", item_code, item_name, amount, FALSE, FALSE, FALSE, None)

\* step 1: base salary by salary_type, with the absence deduction
BaseSalary(employee, attendance) ==
    LET ss == employee.salary_settings
        work_days == IF IsNone(attendance) THEN 0
                     ELSE OrElse(Val(attendance).work_days, 0)
        total_work_minutes == IF IsNone(attendance) THEN 0
                              ELSE OrElse(Val(attendance).total_work_minutes, 0)
    IN  CASE employee.salary_type = "monthly" ->
                IF ~IsNone(attendance) /\ Val(attendance).absence_days > 0
                THEN LET statutory_days == OrElse(Val(attendance).statutory_work_days, 20)
                         daily_rate == ss.monthly_salary \div statutory_days
                     IN  ss.monthly_salary - daily_rate * Val(attendance).absence_days
                ELSE ss.monthly_salary
          [] employee.salary_type = "daily" -> ss.daily_rate * work_days
          [] employee.salary_type = "hourly" ->
                (ss.hourly_rate * total_work_minutes) \div 60
          [] employee.salary_type = "commission" ->
                ss.base_amount + ss.commission_amount
          [] OTHER -> 0

\* step 2: base hourly rate of the premium calculation
BaseHourly(employee, base_salary) ==
    LET ss == employee.salary_settings
        monthly_hours == ss.monthly_prescribed_hours
    IN  CASE employee.salary_type = "monthly" -> ss.monthly_salary \div monthly_hours
          [] employee.salary_type = "daily" -> ss.daily_rate \div 8
          [] employee.salary_type = "hourly" -> ss.hourly_rate
          [] OTHER -> base_salary \div (IF monthly_hours > 0 THEN monthly_hours ELSE 160)

\* the (code, name, amount) list of premium items, in the order of the source
OvertimeItems(ot_result) ==
    << <<"overtime_statutory", "overtime pay", ot_result.overtime_statutory_pay>>,
       <<"overtime_within", "within-statutory overtime pay", ot_result.overtime_within_statutory_pay>>,
       <<"night_work", "night pay", ot_result.night_pay>>,
       <<"holiday_work", "holiday pay", ot_result.statutory_holiday_pay>>,
       <<"non_statutory_holiday", "non-statutory holiday pay", ot_result.non_statutory_holiday_pay>>,
       <<"over60h_premium", "over-60h premium", ot_result.over60h_premium_pay>>,
       <<"night_overtime", "night overtime pay", ot_result.night_overtime_pay>>,
       <<"night_holiday", "night holiday pay", ot_result.night_holiday_pay>> >>

\* "items.append({... earning ...}); total_earnings += amount"
AddEarning(acc, item) ==
    [acc EXCEPT !.items = Append(@, item),
                !.total_earnings = @ + item.amount]

\* variant of AddDeduction that appends the line without adding it to
\* total_deductions
AddDeductionUncounted(acc, item, is_social) ==
    [acc EXCEPT !.items = Append(@, item),
                !.total_deductions = IF is_social THEN @ + item.amount ELSE @,
                !.social_insurance_total = IF is_social THEN @ + item.amount ELSE @]

\* "items.append({... deduction ...}); total_deductions += amount;
\*  social_insurance_total += amount" (the last only for insurance lines)
AddDeduction(acc, item, is_social) ==
    [acc EXCEPT !.items = Append(@, item),
                !.total_deductions = @ + item.amount,
                !.social_insurance_total = IF is_social THEN @ + item.amount ELSE @]

RECURSIVE AddPremiums(_, _)
\* "for code, name, amount in overtime_items: if amount > 0: ..."
AddPremiums(acc, overtime_items) ==
    IF overtime_items = <<>> THEN acc
    ELSE LET h == Head(overtime_items)
         IN  AddPremiums(
                 IF h[3] > 0
                 THEN AddEarning(acc, ItemData("earning", h[1], h[2], h[3],
                                               TRUE, FALSE, TRUE, None))
                 ELSE acc,
                 Tail(overtime_items))

\* step 3 query: allowances of the employee effective in the period
AllowanceQuery(rows, employee, period) ==
    SelectSeq(rows, LAMBDA r :
        /\ r.employee_id = employee.id
        /\ r.effective_from <= period.end_date
        /\ r.is_active
        /\ (IsNone(r.effective_to) \/ Val(r.effective_to) >= period.start_date))

RECURSIVE AddAllowances(_, _)
\* "for ea, at in allowance_result.all(): ..."
AddAllowances(acc, rows) ==
    IF rows = <<>> THEN acc
    ELSE LET r == Head(rows)
         IN  AddAllowances(
                 AddEarning(acc, ItemData("earning", r.item_code, r.name, r.amount,
                                          r.is_taxable, r.is_social_insurance_target,
                                          r.is_employment_insurance_target, None)),
                 Tail(rows))

\* step 4 query: "... .limit(1)" without ORDER BY yields any matching row
CommuteQuery(rows, employee, period) ==
    LET m == { i \in DOMAIN rows :
                 /\ rows[i].employee_id = employee.id
                 /\ rows[i].effective_from <= period.end_date
                 /\ (IsNone(rows[i].effective_to)
                        \/ Val(rows[i].effective_to) >= period.start_date) }
    IN  IF m = {} THEN { None } ELSE { Some(rows[i]) : i \in m }

\* min(monthly_cost, non_taxable_limit or 150000), 0 without commute
CommuteNontaxable(commute) ==
    IF ~IsNone(commute) /\ OrElse(Val(commute).monthly_cost, 0) # 0
    THEN Min(Val(Val(commute).monthly_cost),
             OrElse(Val(commute).non_taxable_limit, 150000))
    ELSE 0

\* steps 1 to 4: everything up to "gross_salary = total_earnings"
Earnings(employee, period, attendance, allowances, commute) ==
    LET base_salary == BaseSalary(employee, attendance)
        base_hourly == BaseHourly(employee, base_salary)
        acc0 == [items |-> <<>>, total_earnings |-> 0, total_deductions |-> 0,
                 social_insurance_total |-> 0]
        acc1 == AddEarning(acc0, ItemData("earning", "base_salary", "base salary",
                                          base_salary, TRUE, TRUE, TRUE, None))
        acc2 == IF IsNone(attendance) THEN acc1
                ELSE AddPremiums(acc1, OvertimeItems(
                         OvertimeCalculate(base_hourly, Val(attendance).minutes)))
        acc3 == AddAllowances(acc2, allowances)
        has_commute == ~IsNone(commute) /\ OrElse(Val(commute).monthly_cost, 0) # 0
    IN  IF has_commute
        THEN AddEarning(acc3, ItemData("earning", "commute", "commute allowance",
                            Val(Val(commute).monthly_cost), FALSE, TRUE, TRUE,
                            Some([nontaxable_limit |-> CommuteNontaxable(commute)])))
        ELSE acc3

EmployeeAge(employee, target_date) ==
    IF IsNone(employee.birth_date) THEN None
    ELSE Some((target_date - Val(employee.birth_date)) \div 365)

\* variant that deducts the premiums whatever the enrolment flags say
SocialInsuranceUnenrolled(acc, employee, company, gross_salary, employee_age, health_rate, pension_rate, employment_rate) ==
    LET health_result == HealthInsurance(company, health_rate, gross_salary, employee_age)
        pension == RateInsurance(pension_rate, gross_salary)
        emp_ins == RateInsurance(employment_rate, gross_salary)
        a1 == IF health_result.health_insurance > 0
              THEN AddDeduction(acc, DeductionItem("health_insurance", "health insurance",
                                    health_result.health_insurance), TRUE)
              ELSE acc
        a2 == IF health_result.care_insurance > 0
              THEN AddDeduction(a1, DeductionItem("care_insurance", "care insurance",
                                    health_result.care_insurance), TRUE)
              ELSE a1
        a3 == IF pension > 0
              THEN AddDeduction(a2, DeductionItem("pension_insurance",
                                    "pension insurance", pension), TRUE)
              ELSE a2
    IN  IF emp_ins > 0
        THEN AddDeduction(a3, DeductionItem("employment_insurance",
                              "employment insurance", emp_ins), TRUE)
        ELSE a3

\* step 5: the social insurance lines for the looked-up rates
SocialInsurance(acc, employee, company, gross_salary, employee_age, health_rate, pension_rate, employment_rate) ==
    LET health_result == HealthInsurance(company, health_rate, gross_salary, employee_age)
        pension == RateInsurance(pension_rate, gross_salary)
        emp_ins == RateInsurance(employment_rate, gross_salary)
        a1 == IF employee.social_insurance_enrolled /\ health_result.health_insurance > 0
              THEN AddDeduction(acc, DeductionItem("health_insurance", "health insurance",
                                    health_result.health_insurance), TRUE)
              ELSE acc
        a2 == IF employee.social_insurance_enrolled /\ health_result.care_insurance > 0
              THEN AddDeduction(a1, DeductionItem("care_insurance", "care insurance",
                                    health_result.care_insurance), TRUE)
              ELSE a1
        a3 == IF employee.pension_insurance_enrolled /\ pension > 0
              THEN AddDeduction(a2, DeductionItem("pension_insurance",
                                    "pension insurance", pension), TRUE)
              ELSE a2
    IN  IF employee.employment_insurance_enrolled /\ emp_ins > 0
        THEN AddDeduction(a3, DeductionItem("employment_insurance",
                              "employment insurance", emp_ins), TRUE)
        ELSE a3

\* variant that taxes the whole commute allowance
TaxableEarningsCommuteTaxed(acc, commute_nontaxable) ==
    Max(0, acc.total_earnings - acc.social_insurance_total)

\* max(0, total_earnings - commute_nontaxable - social_insurance_total)
TaxableEarnings(acc, commute_nontaxable) ==
    Max(0, acc.total_earnings - commute_nontaxable - acc.social_insurance_total)

\* income tax and resident tax lines, then the result dict (step 6)
CalcResult(acc, employee, attendance, base_salary, base_hourly, gross_salary, taxable_earnings, income_tax) ==
    LET resident == employee.resident_tax_monthly_amount
        a1 == IF income_tax > 0
              THEN AddDeduction(acc, DeductionItem("income_tax", "income tax",
                                                   income_tax), FALSE)
              ELSE acc
        a2 == IF ~IsNone(resident) /\ Val(resident) > 0
              THEN AddDeduction(a1, DeductionItem("resident_tax", "resident tax",
                                                  Val(resident)), FALSE)
              ELSE a1
    IN  [total_earnings |-> a2.total_earnings,
         total_deductions |-> a2.total_deductions,
         net_pay |-> a2.total_earnings - a2.total_deductions,
         items |-> a2.items,
         details |-> [salary_type |-> employee.salary_type,
                      base_salary |-> base_salary,
                      base_hourly_rate |-> base_hourly,
                      gross_salary |-> gross_salary,
                      social_insurance_total |-> a2.social_insurance_total,
                      taxable_earnings |-> taxable_earnings,
                      income_tax |-> income_tax,
                      work_days |-> IF IsNone(attendance) THEN 0
                                    ELSE OrElse(Val(attendance).work_days, 0),
                      total_work_minutes |-> IF IsNone(attendance) THEN 0
                                    ELSE OrElse(Val(attendance).total_work_minutes, 0)]]

\* PayrollCalculator.calculate: the set of outcomes it may produce for the
\* given rows; [ok |-> FALSE] stands for the ZeroDivisionError of the
\* base-hourly division, otherwise result is the returned dict
PayrollCalculate(employee, period, company, attendance, allowances, commute, rates, tax_tables) ==
    IF /\ employee.salary_type = "monthly"
       /\ employee.salary_settings.monthly_prescribed_hours = 0
    THEN { [ok |-> FALSE, error |-> "ZeroDivisionError"] }
    ELSE
    LET base_salary == BaseSalary(employee, attendance)
        base_hourly == BaseHourly(employee, base_salary)
        e == Earnings(employee, period, attendance, allowances, commute)
        gross_salary == e.total_earnings
        target_date == period.payment_date
        employee_age == EmployeeAge(employee, target_date)
        prefecture == IF IsNone(company.health_insurance_prefecture)
                         \/ Val(company.health_insurance_prefecture) = ""
                      THEN Some("Tokyo") ELSE company.health_insurance_prefecture
        H == GetRate(rates, company.company_id, "health", target_date, prefecture)
        P == GetRate(rates, company.company_id, "pension", target_date, None)
        E == GetRate(rates, company.company_id, "employment", target_date, None)
        For(hr, pr, er) ==
            LET acc == SocialInsurance(e, employee, company, gross_salary,
                                       employee_age, hr, pr, er)
                taxable_earnings == TaxableEarnings(acc, CommuteNontaxable(commute))
            IN  { [ok |-> TRUE,
                   result |-> CalcResult(acc, employee, attendance, base_salary,
                                         base_hourly, gross_salary,
                                         taxable_earnings, income_tax)] :
                  income_tax \in CalculateIncomeTax(tax_tables, taxable_earnings,
                                    employee.tax_category, employee.dependents_count,
                                    target_date, employee.salary_type = "monthly") }
    IN  UNION { For(c[1], c[2], c[3]) : c \in H \X P \X E }

--------------------------------------------------------------------------
(* api/deps.py *)

\* require_roles(*required_roles): a super admin passes, anyone else needs
\* one of the roles
HasRole(user, required_roles) ==
    user.is_super_admin \/ (user.roles \cap required_roles) # {}

--------------------------------------------------------------------------
(* The payroll tables (models/payroll.py) and the last response *)

VARIABLES
    groups,      \* payroll_record_groups, indexed by id
    records,     \* payroll_records, indexed by id
    items,       \* payroll_record_items, indexed by id
    snapshots,   \* payroll_snapshots, indexed by id
    histories,   \* payroll_histories, indexed by id
    now,         \* datetime.now(timezone.utc), a logical clock
    response,    \* what the last request returned
    sessions,    \* per client, the payroll transaction it has open
    adjustments,           \* year_end_adjustments, indexed by id
    adjustment_histories,  \* year_end_adjustment_histories, indexed by id
    slips,                 \* tax_withholding_slips, indexed by id
    slip_sessions,         \* per client, the withholding slip it is about to insert
    rate_rows,             \* insurance_rates
    lookup,                \* the last _get_rate call and what it returned
    calc_input,            \* the arguments and rows of a calculator call
    calc_output            \* what the calculator call returned

vars == <<groups, records, items, snapshots, histories, now, response, sessions, adjustments, adjustment_histories, slips, slip_sessions, rate_rows, lookup, calc_input, calc_output>>

\* a response: the HTTP status code, the error kind it stands for, the
\* message of the detail (or of the success body), the record status the
\* detail names, and the records of the body
Response(status_code, kind, detail, status, body) ==
    [status_code |-> status_code, kind |-> kind, detail |-> detail,
     status |-> status, body |-> body]

\* HTTPException(403) raised by require_roles
Forbidden == Response(403, "PermissionDenied", "no permission", "", <<>>)
\* HTTPException(404)
NotFound(what) == Response(404, "NotFound", what, "", <<>>)
\* HTTPException(400) whose detail names the record's current status
InvalidState(detail, status) == Response(400, "InvalidState", detail, status, <<>>)
\* an exception that is not an HTTPException: 500, session rolled back
ServerError(exception) == Response(500, "Internal", exception, "", <<>>)

\* get_db: "except Exception: await session.rollback(); raise"
Rollback(resp) ==
    /\ response' = resp
    /\ UNCHANGED <<groups, records, items, snapshots, histories, now>>

RecordIds == DOMAIN records

\* select(PayrollRecord).where(id == record_id, company_id == user.company_id)
FindRecord(record_id, user) ==
    IF record_id \in RecordIds /\ records[record_id].company_id = user.company_id
    THEN Some(records[record_id]) ELSE None

RECURSIVE SortByDisplayOrder(_)
\* ORDER BY display_order over a list of item rows
SortByDisplayOrder(rows) ==
    IF rows = <<>> THEN <<>>
    ELSE LET i == CHOOSE k \in DOMAIN rows :
                    \A j \in DOMAIN rows :
                        \/ Val(rows[k].display_order) < Val(rows[j].display_order)
                        \/ (Val(rows[k].display_order) = Val(rows[j].display_order)
                              /\ k <= j)
             rest == [j \in 1 .. (Len(rows) - 1) |->
                        IF j < i THEN rows[j] ELSE rows[j + 1]]
         IN  <<rows[i]>> \o SortByDisplayOrder(rest)

\* select(PayrollRecordItem).where(payroll_record_id == id)
\*     .order_by(PayrollRecordItem.display_order)
ItemsOfIn(item_table, record_id) ==
    SortByDisplayOrder(SelectSeq(item_table,
                                 LAMBDA it : it.payroll_record_id = record_id))

ItemsOf(record_id) == ItemsOfIn(items, record_id)

\* the clients that may have a request in flight at the same time
Clients == {1, 2}

\* a session without an open transaction
Idle ==
    [op |-> "idle", user |-> 0, record |-> None, item_datas |-> <<>>,
     group |-> None, t |-> 0, reason |-> ""]

\* what a handler that runs from its first statement to its commit without
\* another request in between leaves alone
NoOpenTransaction == UNCHANGED sessions

\* the payroll handlers do not touch the year-end tables
YearEndUnchanged ==
    UNCHANGED <<adjustments, adjustment_histories, slips, slip_sessions>>

\* the year-end handlers do not touch the payroll tables
PayrollUnchanged ==
    UNCHANGED <<groups, records, items, snapshots, histories, sessions>>

\* only the rate lookup touches these
RatesUnchanged == UNCHANGED <<rate_rows, lookup>>

\* only the calculator calls touch these
CalculatorUnchanged == UNCHANGED <<calc_input, calc_output>>

\* every table of the payroll and year-end handlers is empty
EmptyTables ==
    /\ groups = <<>>
    /\ records = <<>>
    /\ items = <<>>
    /\ snapshots = <<>>
    /\ histories = <<>>
    /\ now = 0
    /\ response = Response(0, "", "", "", <<>>)
    /\ sessions = [c \in Clients |-> Idle]
    /\ adjustments = <<>>
    /\ adjustment_histories = <<>>
    /\ slips = <<>>
    /\ slip_sessions = [c \in Clients |-> None]

Init ==
    /\ EmptyTables
    /\ rate_rows = InsuranceRates
    /\ lookup = None
    /\ calc_input = None
    /\ calc_output = None

--------------------------------------------------------------------------
(* POST /payroll/calculate *)

RECURSIVE MaxVersion(_, _)
\* select(func.coalesce(func.max(PayrollRecord.version), 0))
\*     .where(payroll_record_group_id == group_id)
MaxVersion(record_table, group_id) ==
    IF record_table = <<>> THEN 0
    ELSE LET r == record_table[Len(record_table)]
             m == MaxVersion(SubSeq(record_table, 1, Len(record_table) - 1), group_id)
         IN  IF r.payroll_record_group_id = group_id THEN Max(r.version, m) ELSE m

\* a PayrollRecord row as the constructor and the column defaults fill it
NewRecord(id, company_id, group_id, employee_id, period_id, version, payment_date, total_earnings, total_deductions, net_pay, details) ==
    [id |-> id, company_id |-> company_id,
     payroll_record_group_id |-> group_id, employee_id |-> employee_id,
     payroll_period_id |-> period_id, version |-> version, status |-> "draft",
     payment_date |-> payment_date, total_earnings |-> total_earnings,
     total_deductions |-> total_deductions, net_pay |-> net_pay,
     calculation_details |-> details,
     confirmed_at |-> None, confirmed_by |-> None,
     cancelled_at |-> None, cancelled_by |-> None,
     cancellation_reason |-> None, pdf_path |-> None]

\* CheckConstraint chk_payroll_records_amounts
AmountsCheck(record) ==
    record.total_earnings >= 0 /\ record.total_deductions >= 0

RECURSIVE NewItems(_, _, _, _, _)
\* "for item_data in calc_result.get('items', []): display_order += 1; ..."
NewItems(item_table, company_id, record_id, item_datas, display_order) ==
    IF item_datas = <<>> THEN item_table
    ELSE LET d == Head(item_datas)
             row == [id |-> Len(item_table) + 1, company_id |-> company_id,
                     payroll_record_id |-> record_id,
                     item_type |-> d.item_type, item_code |-> d.item_code,
                     item_name |-> d.item_name, amount |-> d.amount,
                     quantity |-> None, unit_price |-> None,
                     is_taxable |-> d.is_taxable,
                     is_social_insurance_target |-> d.is_social_insurance_target,
                     is_employment_insurance_target |-> d.is_employment_insurance_target,
                     display_order |-> Some(display_order + 1),
                     notes |-> d.notes]
         IN  NewItems(Append(item_table, row), company_id, record_id,
                      Tail(item_datas), display_order + 1)

NewHistory(id, company_id, record_id, action, changed_by, old_values, new_values, reason) ==
    [id |-> id, company_id |-> company_id, payroll_record_id |-> record_id,
     action |-> action, changed_by |-> changed_by, old_values |-> old_values,
     new_values |-> new_values, reason |-> reason]

\* the body of "for emp in employees" for one employee whose calculation
\* outcome is out; db holds the tables as the session sees them
CalculateOne(db, emp, user, period, out) ==
    LET found == { g \in DOMAIN db.groups :
                     /\ db.groups[g].company_id = user.company_id
                     /\ db.groups[g].employee_id = emp.id
                     /\ db.groups[g].payroll_period_id = period.id }
        gid == IF found = {} THEN Len(db.groups) + 1 ELSE CHOOSE g \in found : TRUE
        groups1 == IF found = {}
                   THEN Append(db.groups,
                               [id |-> gid, company_id |-> user.company_id,
                                employee_id |-> emp.id,
                                payroll_period_id |-> period.id,
                                current_payroll_record_id |-> None])
                   ELSE db.groups
        existing_draft == { r \in DOMAIN db.records :
                              /\ db.records[r].payroll_record_group_id = gid
                              /\ db.records[r].status = "draft" }
        max_version == MaxVersion(db.records, gid)
        rid == Len(db.records) + 1
    IN  IF Cardinality(existing_draft) > 1
        THEN [ok |-> FALSE, error |-> "MultipleResultsFound"]
        ELSE IF existing_draft # {}
        THEN [ok |-> TRUE, db |-> [db EXCEPT !.groups = groups1], created |-> <<>>]
        ELSE IF ~out.ok
        THEN [ok |-> FALSE, error |-> out.error]
        ELSE
        LET calc_result == out.result
            record == NewRecord(rid, user.company_id, gid, emp.id, period.id,
                                max_version + 1, period.payment_date,
                                calc_result.total_earnings,
                                calc_result.total_deductions,
                                calc_result.net_pay, Some(calc_result.details))
            history == NewHistory(Len(db.histories) + 1, user.company_id, rid,
                           "calculated", Some(user.id), None,
                           Some([status |-> "draft",
                                 total_earnings |-> calc_result.total_earnings,
                                 total_deductions |-> calc_result.total_deductions,
                                 net_pay |-> calc_result.net_pay]),
                           None)
        IN  IF ~AmountsCheck(record)
            THEN [ok |-> FALSE, error |-> "IntegrityError"]
            ELSE [ok |-> TRUE,
                  db |-> [groups |-> [groups1 EXCEPT
                                        ![gid].current_payroll_record_id = Some(rid)],
                          records |-> Append(db.records, record),
                          items |-> NewItems(db.items, user.company_id, rid,
                                             calc_result.items, 0),
                          histories |-> Append(db.histories, history)],
                  created |-> <<record>>]

RECURSIVE CalculateLoop(_, _, _, _, _, _)
\* "for emp in employees: ..." over the employees in the order of the query
CalculateLoop(db, employees, user, period, outcome, created_records) ==
    IF employees = <<>>
    THEN [ok |-> TRUE, db |-> db, created |-> created_records]
    ELSE LET emp == Head(employees)
             one == CalculateOne(db, emp, user, period, outcome[emp.id])
         IN  IF ~one.ok THEN one
             ELSE CalculateLoop(one.db, Tail(employees), user, period, outcome,
                                created_records \o one.created)

\* select(Employee).where(company_id == user.company_id, is_deleted == False
\*     [, id.in_(employee_ids)]): the ids of the matching rows
EmployeeQuery(user, employee_ids) ==
    { i \in DOMAIN Employees :
        /\ Employees[i].company_id = user.company_id
        /\ (IsNone(employee_ids) \/ Val(employee_ids) = <<>>
                \/ \E k \in DOMAIN Val(employee_ids) :
                        Val(employee_ids)[k] = Employees[i].id) }

\* the orders in which the query may deliver a set of rows
Orders(S) ==
    { o \in [1 .. Cardinality(S) -> S] :
        \A i, j \in DOMAIN o : i # j => o[i] # o[j] }

\* the outcomes calculator.calculate may have for employee i
CalcOutcomes(i, period) ==
    UNION { PayrollCalculate(Employees[i], period, Company, att,
                             AllowanceQuery(AllowanceRows, Employees[i], period),
                             commute, InsuranceRates, IncomeTaxTables) :
            <<att, commute>> \in AttendanceChoices(Employees[i].id)
                                 \X CommuteQuery(CommuteRows, Employees[i], period) }

\* calculate() reads only master data, so its outcomes per employee are
\* the same in every state
CalcOutcomesTable == [i \in DOMAIN Employees |-> CalcOutcomes(i, Periods[1])]

CalculatePayroll(user, payroll_period_id, employee_ids) ==
    LET period_ids == { p \in DOMAIN Periods :
                          /\ Periods[p].id = payroll_period_id
                          /\ Periods[p].company_id = user.company_id }
        selected == EmployeeQuery(user, employee_ids)
    IN  IF ~HasRole(user, {"super_admin", "admin", "accountant"})
        THEN Rollback(Forbidden)
        ELSE IF period_ids = {}
        THEN Rollback(NotFound("period not found"))
        ELSE IF selected = {}
        THEN Rollback(NotFound("employees not found"))
        ELSE
        \E order \in Orders(selected) :
        \E outcome \in [selected -> UNION { CalcOutcomesTable[i] : i \in selected }] :
            /\ \A i \in selected : outcome[i] \in CalcOutcomesTable[i]
            /\ LET period == Periods[CHOOSE p \in period_ids : TRUE]
                   res == CalculateLoop(
                              [groups |-> groups, records |-> records,
                               items |-> items, histories |-> histories],
                              [k \in DOMAIN order |-> Employees[order[k]]],
                              user, period, outcome, <<>>)
               IN  IF ~res.ok
                   THEN Rollback(ServerError(res.error))
                   ELSE /\ Len(res.db.records) <= MaxRecords
                        /\ groups' = res.db.groups
                        /\ records' = res.db.records
                        /\ items' = res.db.items
                        /\ histories' = res.db.histories
                        /\ response' = Response(201, "", "", "", res.created)
                        /\ UNCHANGED <<snapshots, now>>

\* the requests sent to POST /calculate: <<user id, payroll_period_id,
\* employee_ids>>
CalculateRequests ==
    { <<1, 1, None>>, <<1, 1, Some(<<1>>)>>, <<2, 1, Some(<<2>>)>>,
      <<1, 1, Some(<<9>>)>>, <<1, 9, None>>, <<3, 1, None>>, <<4, 1, None>> }

CalculateAction ==
    /\ \E rq \in CalculateRequests : CalculatePayroll(User(rq[1]), rq[2], rq[3])
    /\ NoOpenTransaction
    /\ YearEndUnchanged
    /\ RatesUnchanged
    /\ CalculatorUnchanged

--------------------------------------------------------------------------
(* POST /payroll/records/{id}/confirm *)

\* variant of SnapshotData that stores the items in reverse order
SnapshotDataReversed(record, item_rows, confirmed_at, confirmed_by) ==
    [record |-> [id |-> record.id, employee_id |-> record.employee_id,
                 version |-> record.version,
                 payment_date |-> record.payment_date,
                 total_earnings |-> record.total_earnings,
                 total_deductions |-> record.total_deductions,
                 net_pay |-> record.net_pay,
                 calculation_details |-> record.calculation_details],
     items |-> [i \in DOMAIN item_rows |->
                  LET row == item_rows[Len(item_rows) + 1 - i]
                  IN  [item_type |-> row.item_type,
                       item_code |-> row.item_code,
                       item_name |-> row.item_name,
                       amount |-> row.amount,
                       is_taxable |-> row.is_taxable]],
     confirmed_at |-> confirmed_at,
     confirmed_by |-> confirmed_by]

\* the snapshot_data payload built from the record and its ordered items
SnapshotData(record, item_rows, confirmed_at, confirmed_by) ==
    [record |-> [id |-> record.id, employee_id |-> record.employee_id,
                 version |-> record.version,
                 payment_date |-> record.payment_date,
                 total_earnings |-> record.total_earnings,
                 total_deductions |-> record.total_deductions,
                 net_pay |-> record.net_pay,
                 calculation_details |-> record.calculation_details],
     items |-> [i \in DOMAIN item_rows |->
                  [item_type |-> item_rows[i].item_type,
                   item_code |-> item_rows[i].item_code,
                   item_name |-> item_rows[i].item_name,
                   amount |-> item_rows[i].amount,
                   is_taxable |-> item_rows[i].is_taxable]],
     confirmed_at |-> confirmed_at,
     confirmed_by |-> confirmed_by]

\* variant of ConfirmAllowed that also lets a confirmed record be confirmed
ConfirmAllowedAgain(record) == record.status \in {"draft", "confirmed"}

\* "if record.status != 'draft': raise HTTPException(400)"
ConfirmAllowed(record) == record.status = "draft"

ConfirmPayrollRecord(user, record_id) ==
    LET found == FindRecord(record_id, user)
    IN  IF ~HasRole(user, {"super_admin", "admin"})
        THEN Rollback(Forbidden)
        ELSE IF IsNone(found)
        THEN Rollback(NotFound("record not found"))
        ELSE IF ~ConfirmAllowed(Val(found))
        THEN Rollback(InvalidState("cannot confirm", Val(found).status))
        ELSE
        LET t == now + 1
            record == [Val(found) EXCEPT !.status = "confirmed",
                                         !.confirmed_at = Some(t),
                                         !.confirmed_by = Some(user.id)]
            snapshot == [id |-> Len(snapshots) + 1, company_id |-> user.company_id,
                         payroll_record_id |-> record.id,
                         snapshot_data |-> SnapshotData(record, ItemsOf(record.id),
                                                        t, user.id)]
            history == NewHistory(Len(histories) + 1, user.company_id, record.id,
                           "confirmed", Some(user.id),
                           Some([status |-> "draft"]),
                           Some([status |-> "confirmed", confirmed_at |-> t]),
                           None)
        IN  /\ now' = t
            /\ records' = [records EXCEPT ![record_id] = record]
            /\ snapshots' = Append(snapshots, snapshot)
            /\ histories' = Append(histories, history)
            /\ response' = Response(200, "", "confirmed", "", <<record>>)
            /\ UNCHANGED <<groups, items>>

\* record ids a request may name: every existing one and one that is absent
RequestIds == (DOMAIN records) \cup {Len(records) + 1}

\* the requests sent to the record endpoints: the admin names any record, the
\* other users the first one
RecordRequests ==
    { <<1, record_id>> : record_id \in RequestIds } \cup { <<2, 1>>, <<3, 1>>, <<4, 1>> }

ConfirmAction ==
    /\ \E rq \in RecordRequests : ConfirmPayrollRecord(User(rq[1]), rq[2])
    /\ NoOpenTransaction
    /\ YearEndUnchanged
    /\ RatesUnchanged
    /\ CalculatorUnchanged

--------------------------------------------------------------------------
(* POST /payroll/records/{id}/cancel *)

\* variant of CancelAllowed that lets a draft be cancelled
CancelAllowedDraft(record) == record.status \in {"draft", "confirmed"}

\* "if record.status != 'confirmed': raise HTTPException(400)"
CancelAllowed(record) == record.status = "confirmed"

\* variant of ForkVersion that keeps the version of the cancelled record
ForkVersionKept(record) == record.version

\* version of the draft forked by the cancellation
ForkVersion(record) == record.version + 1

RECURSIVE CopyItems(_, _, _, _)
\* "for old_item in items_result.scalars().all(): new_item = ..."
CopyItems(item_table, company_id, new_record_id, old_items) ==
    IF old_items = <<>> THEN item_table
    ELSE LET old_item == Head(old_items)
             new_item == [id |-> Len(item_table) + 1, company_id |-> company_id,
                          payroll_record_id |-> new_record_id,
                          item_type |-> old_item.item_type,
                          item_code |-> old_item.item_code,
                          item_name |-> old_item.item_name,
                          amount |-> old_item.amount,
                          quantity |-> old_item.quantity,
                          unit_price |-> old_item.unit_price,
                          is_taxable |-> old_item.is_taxable,
                          is_social_insurance_target |->
                              old_item.is_social_insurance_target,
                          is_employment_insurance_target |->
                              old_item.is_employment_insurance_target,
                          display_order |-> old_item.display_order,
                          notes |-> old_item.notes]
         IN  CopyItems(Append(item_table, new_item), company_id, new_record_id,
                       Tail(old_items))

\* the cancellation reasons a request may carry
Reasons == { "miscalculation" }

CancelPayrollRecord(user, record_id, reason) ==
    LET found == FindRecord(record_id, user)
    IN  IF ~HasRole(user, {"super_admin", "admin"})
        THEN Rollback(Forbidden)
        ELSE IF IsNone(found)
        THEN Rollback(NotFound("record not found"))
        ELSE IF ~CancelAllowed(Val(found))
        THEN Rollback(InvalidState("cannot cancel", Val(found).status))
        ELSE
        LET t == now + 1
            record == [Val(found) EXCEPT !.status = "cancelled",
                                         !.cancelled_at = Some(t),
                                         !.cancelled_by = Some(user.id),
                                         !.cancellation_reason = Some(reason)]
            cancel_history ==
                NewHistory(Len(histories) + 1, user.company_id, record.id,
                           "cancelled", Some(user.id),
                           Some([status |-> "confirmed"]),
                           Some([status |-> "cancelled", cancelled_at |-> t,
                                 cancellation_reason |-> reason]),
                           Some(reason))
            new_id == Len(records) + 1
            new_record == NewRecord(new_id, user.company_id,
                                    record.payroll_record_group_id,
                                    record.employee_id, record.payroll_period_id,
                                    ForkVersion(record), record.payment_date,
                                    record.total_earnings, record.total_deductions,
                                    record.net_pay, record.calculation_details)
            gid == record.payroll_record_group_id
            new_history ==
                NewHistory(Len(histories) + 2, user.company_id, new_id,
                           "created_from_cancellation", Some(user.id), None,
                           Some([status |-> "draft", version |-> new_record.version,
                                 source_record_id |-> record.id]),
                           Some("created by cancellation of a record"))
        IN  /\ Len(records) < MaxRecords
            /\ now' = t
            /\ records' = Append([records EXCEPT ![record_id] = record], new_record)
            /\ items' = CopyItems(items, user.company_id, new_id, ItemsOf(record.id))
            /\ groups' = IF gid \in DOMAIN groups
                         THEN [groups EXCEPT ![gid].current_payroll_record_id =
                                                  Some(new_id)]
                         ELSE groups
            /\ histories' = histories \o <<cancel_history, new_history>>
            /\ response' = Response(200, "", "cancelled", "", <<record, new_record>>)
            /\ UNCHANGED snapshots

CancelAction ==
    /\ \E rq \in RecordRequests, reason \in Reasons :
          CancelPayrollRecord(User(rq[1]), rq[2], reason)
    /\ NoOpenTransaction
    /\ YearEndUnchanged
    /\ RatesUnchanged
    /\ CalculatorUnchanged

--------------------------------------------------------------------------
(* POST /payroll/records/{id}/pdf *)

\* variant of GeneratePdfCall in which the generator accepts the call and
\* returns a path
GeneratePdfCallWritten(record, item_rows) ==
    [ok |-> TRUE, pdf_path |-> "payroll.pdf"]

\* the call "_generate_pdf(record, items)": services.pdf_generator.
\* generate_payroll_pdf has seven required parameters, so the call with two
\* arguments raises TypeError before any file is written
GeneratePdfCall(record, item_rows) ==
    [ok |-> FALSE, error |-> "TypeError"]

GeneratePayrollPdf(user, record_id) ==
    LET found == FindRecord(record_id, user)
    IN  IF ~HasRole(user, {"super_admin", "admin", "accountant"})
        THEN Rollback(Forbidden)
        ELSE IF IsNone(found)
        THEN Rollback(NotFound("record not found"))
        ELSE
        LET pdf == GeneratePdfCall(Val(found), ItemsOf(record_id))
        IN  IF ~pdf.ok
            THEN Rollback(ServerError(pdf.error))
            ELSE /\ records' = [records EXCEPT ![record_id].pdf_path = Some(pdf.pdf_path)]
                 /\ response' = Response(200, "", "pdf", "", <<>>)
                 /\ UNCHANGED <<groups, items, snapshots, histories, now>>

PdfAction ==
    /\ \E rq \in RecordRequests : GeneratePayrollPdf(User(rq[1]), rq[2])
    /\ NoOpenTransaction
    /\ YearEndUnchanged
    /\ RatesUnchanged
    /\ CalculatorUnchanged

--------------------------------------------------------------------------
(* Concurrent requests.  Every request runs in its own session and         *)
(* transaction (get_db); the engine is created without an isolation level, *)
(* so PostgreSQL runs them READ COMMITTED, and no handler uses             *)
(* with_for_update or a version column.  A transaction is modelled in two  *)
(* steps: Begin runs the handler's SELECTs and checks against the          *)
(* committed tables and keeps what it read in the session, Finish flushes  *)
(* the session's writes and commits.  An UPDATE waits for the row lock of  *)
(* a transaction that wrote the row first and then applies its SET         *)
(* columns to the committed row, so the writes of two transactions take    *)
(* effect in the order of their Finish steps.  Schedules in which the      *)
(* SELECTs of one handler are separated by another commit are not          *)
(* modelled.                                                               *)

\* the requests of the concurrent clients: the admin, on existing records
ConcurrentUser == User(1)

OpenSession(op, user, record, item_datas, group, t, reason) ==
    [op |-> op, user |-> user.id, record |-> record, item_datas |-> item_datas,
     group |-> group, t |-> t, reason |-> reason]

\* a request that ends before it writes: only the response changes
Refuse(resp) ==
    /\ response' = resp
    /\ UNCHANGED <<groups, records, items, snapshots, histories, now, sessions>>

\* the session's transaction is over
Close(c) == sessions' = [sessions EXCEPT ![c] = Idle]

\* confirm_payroll_record up to "record.status = 'confirmed'"
ConfirmBegin(c, user, record_id) ==
    LET found == FindRecord(record_id, user)
    IN  /\ sessions[c].op = "idle"
        /\ IF ~HasRole(user, {"super_admin", "admin"})
           THEN Refuse(Forbidden)
           ELSE IF IsNone(found)
           THEN Refuse(NotFound("record not found"))
           ELSE IF ~ConfirmAllowed(Val(found))
           THEN Refuse(InvalidState("cannot confirm", Val(found).status))
           ELSE /\ now' = now + 1
                /\ sessions' = [sessions EXCEPT ![c] =
                       OpenSession("confirm", user, found, <<>>, None, now + 1, "")]
                /\ UNCHANGED <<groups, records, items, snapshots, histories, response>>

\* the flush and commit of confirm_payroll_record: UPDATE of the three
\* changed columns, INSERT of the snapshot and of the history row
ConfirmFinish(c) ==
    LET s == sessions[c]
        user == User(s.user)
        record_id == Val(s.record).id
        record == [Val(s.record) EXCEPT !.status = "confirmed",
                                        !.confirmed_at = Some(s.t),
                                        !.confirmed_by = Some(user.id)]
        snapshot == [id |-> Len(snapshots) + 1, company_id |-> user.company_id,
                     payroll_record_id |-> record_id,
                     snapshot_data |-> SnapshotData(record, ItemsOf(record_id),
                                                    s.t, user.id)]
        history == NewHistory(Len(histories) + 1, user.company_id, record_id,
                       "confirmed", Some(user.id),
                       Some([status |-> "draft"]),
                       Some([status |-> "confirmed", confirmed_at |-> s.t]),
                       None)
    IN  /\ s.op = "confirm"
        /\ records' = [records EXCEPT ![record_id].status = "confirmed",
                                      ![record_id].confirmed_at = Some(s.t),
                                      ![record_id].confirmed_by = Some(user.id)]
        /\ snapshots' = Append(snapshots, snapshot)
        /\ histories' = Append(histories, history)
        /\ response' = Response(200, "", "confirmed", "", <<record>>)
        /\ Close(c)
        /\ UNCHANGED <<groups, items, now>>

\* cancel_payroll_record up to "record.status = 'cancelled'"
CancelBegin(c, user, record_id, reason) ==
    LET found == FindRecord(record_id, user)
    IN  /\ sessions[c].op = "idle"
        /\ IF ~HasRole(user, {"super_admin", "admin"})
           THEN Refuse(Forbidden)
           ELSE IF IsNone(found)
           THEN Refuse(NotFound("record not found"))
           ELSE IF ~CancelAllowed(Val(found))
           THEN Refuse(InvalidState("cannot cancel", Val(found).status))
           ELSE /\ now' = now + 1
                /\ sessions' = [sessions EXCEPT ![c] =
                       OpenSession("cancel", user, found, <<>>, None, now + 1, reason)]
                /\ UNCHANGED <<groups, records, items, snapshots, histories, response>>

\* the flush and commit of cancel_payroll_record
CancelFinish(c) ==
    LET s == sessions[c]
        user == User(s.user)
        record_id == Val(s.record).id
        record == [Val(s.record) EXCEPT !.status = "cancelled",
                                        !.cancelled_at = Some(s.t),
                                        !.cancelled_by = Some(user.id),
                                        !.cancellation_reason = Some(s.reason)]
        cancel_history ==
            NewHistory(Len(histories) + 1, user.company_id, record_id,
                       "cancelled", Some(user.id),
                       Some([status |-> "confirmed"]),
                       Some([status |-> "cancelled", cancelled_at |-> s.t,
                             cancellation_reason |-> s.reason]),
                       Some(s.reason))
        new_id == Len(records) + 1
        new_record == NewRecord(new_id, user.company_id,
                                record.payroll_record_group_id,
                                record.employee_id, record.payroll_period_id,
                                ForkVersion(record), record.payment_date,
                                record.total_earnings, record.total_deductions,
                                record.net_pay, record.calculation_details)
        gid == record.payroll_record_group_id
        new_history ==
            NewHistory(Len(histories) + 2, user.company_id, new_id,
                       "created_from_cancellation", Some(user.id), None,
                       Some([status |-> "draft", version |-> new_record.version,
                             source_record_id |-> record_id]),
                       Some("created by cancellation of a record"))
    IN  /\ s.op = "cancel"
        /\ Len(records) < MaxRecords
        /\ records' = Append([records EXCEPT
                                ![record_id].status = "cancelled",
                                ![record_id].cancelled_at = Some(s.t),
                                ![record_id].cancelled_by = Some(user.id),
                                ![record_id].cancellation_reason = Some(s.reason)],
                             new_record)
        /\ items' = CopyItems(items, user.company_id, new_id, ItemsOf(record_id))
        /\ groups' = IF gid \in DOMAIN groups
                     THEN [groups EXCEPT ![gid].current_payroll_record_id =
                                              Some(new_id)]
                     ELSE groups
        /\ histories' = histories \o <<cancel_history, new_history>>
        /\ response' = Response(200, "", "cancelled", "", <<record, new_record>>)
        /\ Close(c)
        /\ UNCHANGED <<snapshots, now>>

\* the payroll_record_groups rows of (company, employee, period)
GroupsFor(group_table, company_id, employee_id, payroll_period_id) ==
    { g \in DOMAIN group_table :
        /\ group_table[g].company_id = company_id
        /\ group_table[g].employee_id = employee_id
        /\ group_table[g].payroll_period_id = payroll_period_id }

\* calculate_payroll for one employee up to the construction of the
\* PayrollRecord: role check, period and employee queries, group lookup,
\* draft check, max(version) and the calculation
CalculateBegin(c, user, payroll_period_id, employee_id) ==
    LET period_ids == { p \in DOMAIN Periods :
                          /\ Periods[p].id = payroll_period_id
                          /\ Periods[p].company_id = user.company_id }
        selected == EmployeeQuery(user, Some(<<employee_id>>))
    IN  /\ sessions[c].op = "idle"
        /\ IF ~HasRole(user, {"super_admin", "admin", "accountant"})
           THEN Refuse(Forbidden)
           ELSE IF period_ids = {}
           THEN Refuse(NotFound("period not found"))
           ELSE IF selected = {}
           THEN Refuse(NotFound("employees not found"))
           ELSE
           \E i \in selected : \E out \in CalcOutcomesTable[i] :
               LET period == Periods[CHOOSE p \in period_ids : TRUE]
                   found == GroupsFor(groups, user.company_id, Employees[i].id, period.id)
                   one == CalculateOne([groups |-> groups, records |-> records,
                                        items |-> items, histories |-> histories],
                                       Employees[i], user, period, out)
               IN  IF ~one.ok
                   THEN Refuse(ServerError(one.error))
                   ELSE IF one.created = <<>>
                   THEN Refuse(Response(201, "", "", "", <<>>))
                   ELSE /\ sessions' = [sessions EXCEPT ![c] =
                              OpenSession("calculate", user, Some(one.created[1]),
                                          out.result.items,
                                          IF found = {} THEN None
                                          ELSE Some(CHOOSE g \in found : TRUE),
                                          0, "")]
                        /\ UNCHANGED <<groups, records, items, snapshots,
                                       histories, now, response>>

\* the flush and commit of calculate_payroll: INSERT of the group when none
\* was found (refused by uk_payroll_record_groups when another transaction
\* has inserted it since), INSERT of the record with the version computed
\* at the time of the check, of its items and of the history row, UPDATE of
\* the group's current record
CalculateFinish(c) ==
    LET s == sessions[c]
        user == User(s.user)
        seen == Val(s.record)
        found == GroupsFor(groups, user.company_id, seen.employee_id,
                           seen.payroll_period_id)
        gid == IF IsNone(s.group) THEN Len(groups) + 1 ELSE Val(s.group)
        groups1 == IF IsNone(s.group)
                   THEN Append(groups,
                               [id |-> gid, company_id |-> user.company_id,
                                employee_id |-> seen.employee_id,
                                payroll_period_id |-> seen.payroll_period_id,
                                current_payroll_record_id |-> None])
                   ELSE groups
        rid == Len(records) + 1
        record == [seen EXCEPT !.id = rid, !.payroll_record_group_id = gid]
        history == NewHistory(Len(histories) + 1, user.company_id, rid,
                       "calculated", Some(user.id), None,
                       Some([status |-> "draft",
                             total_earnings |-> record.total_earnings,
                             total_deductions |-> record.total_deductions,
                             net_pay |-> record.net_pay]),
                       None)
    IN  /\ s.op = "calculate"
        /\ IF IsNone(s.group) /\ found # {}
           THEN /\ response' = ServerError("IntegrityError")
                /\ Close(c)
                /\ UNCHANGED <<groups, records, items, snapshots, histories, now>>
           ELSE /\ Len(records) < MaxRecords
                /\ groups' = [groups1 EXCEPT ![gid].current_payroll_record_id = Some(rid)]
                /\ records' = Append(records, record)
                /\ items' = NewItems(items, user.company_id, rid, s.item_datas, 0)
                /\ histories' = Append(histories, history)
                /\ response' = Response(201, "", "", "", <<record>>)
                /\ Close(c)
                /\ UNCHANGED <<snapshots, now>>

\* the concurrent clients send Calculate for employee 1 and period 1 and
\* Confirm and Cancel for any existing record
ConfirmBeginAction ==
    /\ \E c \in Clients, record_id \in DOMAIN records :
          ConfirmBegin(c, ConcurrentUser, record_id)
    /\ YearEndUnchanged
    /\ RatesUnchanged
    /\ CalculatorUnchanged

ConfirmFinishAction ==
    /\ \E c \in Clients : ConfirmFinish(c)
    /\ YearEndUnchanged
    /\ RatesUnchanged
    /\ CalculatorUnchanged

CancelBeginAction ==
    /\ \E c \in Clients, record_id \in DOMAIN records, reason \in Reasons :
          CancelBegin(c, ConcurrentUser, record_id, reason)
    /\ YearEndUnchanged
    /\ RatesUnchanged
    /\ CalculatorUnchanged

CancelFinishAction ==
    /\ \E c \in Clients : CancelFinish(c)
    /\ YearEndUnchanged
    /\ RatesUnchanged
    /\ CalculatorUnchanged

CalculateBeginAction ==
    /\ \E c \in Clients : CalculateBegin(c, ConcurrentUser, 1, 1)
    /\ YearEndUnchanged
    /\ RatesUnchanged
    /\ CalculatorUnchanged

CalculateFinishAction ==
    /\ \E c \in Clients : CalculateFinish(c)
    /\ YearEndUnchanged
    /\ RatesUnchanged
    /\ CalculatorUnchanged

NextConcurrent ==
    \/ CalculateBeginAction
    \/ CalculateFinishAction
    \/ ConfirmBeginAction
    \/ ConfirmFinishAction
    \/ CancelBeginAction
    \/ CancelFinishAction

SpecConcurrent == Init /\ [][NextConcurrent]_vars

--------------------------------------------------------------------------
(* Year-end adjustment workflow (backend/app/api/v1/year_end.py).  Of the  *)
(* eleven deduction columns basic_deduction stands for all; the JSONB      *)
(* declaration columns are left out.                                       *)

\* HTTPException(409)
Conflict(detail) == Response(409, "Conflict", detail, "", <<>>)

\* a year-end request that raises: the session is rolled back
YearEndRollback(resp) ==
    /\ response' = resp
    /\ UNCHANGED <<adjustments, adjustment_histories, slips, slip_sessions, now>>

\* _is_admin_user
IsAdminUser(user) ==
    user.is_super_admin \/ user.roles \cap {"super_admin", "admin", "accountant"} # {}

\* _get_employee_for_user: the employee row of the user's company with the
\* user's email (the master data holds at most one per email)
GetEmployeeForUser(user) ==
    LET matching == { i \in DOMAIN Employees :
                        /\ Employees[i].company_id = user.company_id
                        /\ Employees[i].email = Some(user.email) }
    IN  IF matching = {} THEN None ELSE Some(Employees[CHOOSE i \in matching : TRUE])

OwnOrAdminAnyone(user, employee_id) == TRUE

\* "if not is_admin: emp = ...; if not emp or emp.id != employee_id: raise 403"
OwnOrAdmin(user, employee_id) ==
    \/ IsAdminUser(user)
    \/ /\ ~IsNone(GetEmployeeForUser(user))
       /\ Val(GetEmployeeForUser(user)).id = employee_id

\* select(YearEndAdjustment).where(id == adjustment_id,
\*     company_id == user.company_id)
FindAdjustment(adjustment_id, user) ==
    IF /\ adjustment_id \in DOMAIN adjustments
       /\ adjustments[adjustment_id].company_id = user.company_id
    THEN Some(adjustments[adjustment_id]) ELSE None

\* a YearEndAdjustment row as create_adjustment builds it from the body
NewAdjustment(id, company_id, body) ==
    [id |-> id, company_id |-> company_id, employee_id |-> body.employee_id,
     target_year |-> body.target_year, status |-> "draft",
     basic_deduction |-> body.basic_deduction,
     annual_income |-> None, annual_withheld_tax |-> None,
     annual_calculated_tax |-> None, adjustment_amount |-> None,
     submitted_at |-> None, returned_at |-> None, return_reason |-> None,
     approved_at |-> None, approved_by |-> None,
     confirmed_at |-> None, confirmed_by |-> None]

NewAdjustmentHistoryStale(id, company_id, adjustment_id, action, changed_by, old_status, new_status, reason) ==
    [id |-> id, company_id |-> company_id,
     year_end_adjustment_id |-> adjustment_id, action |-> action,
     changed_by |-> Some(changed_by), old_status |-> old_status,
     new_status |-> IF IsNone(old_status) THEN Some(new_status) ELSE old_status,
     reason |-> reason]

\* YearEndAdjustmentHistory(...) as the handlers build it
NewAdjustmentHistory(id, company_id, adjustment_id, action, changed_by, old_status, new_status, reason) ==
    [id |-> id, company_id |-> company_id,
     year_end_adjustment_id |-> adjustment_id, action |-> action,
     changed_by |-> Some(changed_by), old_status |-> old_status,
     new_status |-> Some(new_status), reason |-> reason]

\* the end of a handler that changed adjustment row a and appended a
\* history row
CommitTransition(a, user, action, old_status, reason, code, message) ==
    /\ Len(adjustment_histories) < MaxAdjustmentHistories
    /\ adjustments' = [adjustments EXCEPT ![a.id] = a]
    /\ adjustment_histories' =
           Append(adjustment_histories,
                  NewAdjustmentHistory(Len(adjustment_histories) + 1,
                                       user.company_id, a.id, action, user.id,
                                       old_status, a.status, reason))
    /\ response' = Response(code, "", message, "", <<a>>)
    /\ UNCHANGED <<slips, slip_sessions>>

\* POST /year-end/adjustments
CreateAdjustment(user, body) ==
    LET employee_ids == { i \in DOMAIN Employees :
                            /\ Employees[i].id = body.employee_id
                            /\ Employees[i].company_id = user.company_id }
        existing == { a \in DOMAIN adjustments :
                        /\ adjustments[a].company_id = user.company_id
                        /\ adjustments[a].employee_id = body.employee_id
                        /\ adjustments[a].target_year = body.target_year }
        adjustment == NewAdjustment(Len(adjustments) + 1, user.company_id, body)
    IN  IF ~HasRole(user, {"super_admin", "admin", "accountant", "employee"})
        THEN YearEndRollback(Forbidden)
        ELSE IF ~OwnOrAdmin(user, body.employee_id)
        THEN YearEndRollback(Forbidden)
        ELSE IF employee_ids = {}
        THEN YearEndRollback(NotFound("employee not found"))
        ELSE IF existing # {}
        THEN YearEndRollback(Conflict("adjustment exists"))
        ELSE /\ Len(adjustment_histories) < MaxAdjustmentHistories
             /\ adjustments' = Append(adjustments, adjustment)
             /\ adjustment_histories' =
                    Append(adjustment_histories,
                           NewAdjustmentHistory(Len(adjustment_histories) + 1,
                                                user.company_id, adjustment.id,
                                                "created", user.id, None, "draft",
                                                None))
             /\ response' = Response(201, "", "created", "", <<adjustment>>)
             /\ UNCHANGED <<slips, slip_sessions, now>>

\* GET /year-end/adjustments/{id}
GetAdjustment(user, adjustment_id) ==
    LET found == FindAdjustment(adjustment_id, user)
    IN  IF ~HasRole(user, {"super_admin", "admin", "accountant", "employee"})
        THEN YearEndRollback(Forbidden)
        ELSE IF IsNone(found)
        THEN YearEndRollback(NotFound("adjustment not found"))
        ELSE IF ~OwnOrAdmin(user, Val(found).employee_id)
        THEN YearEndRollback(Forbidden)
        ELSE YearEndRollback(Response(200, "", "detail", "", <<Val(found)>>))

\* "for key, value in update_data.items(): setattr(adjustment, key, value)"
ApplyPatch(adjustment, patch) ==
    [k \in DOMAIN adjustment |->
        IF k \in DOMAIN patch THEN patch[k] ELSE adjustment[k]]

UpdatableSubmitted(status) == status \in {"draft", "returned", "submitted"}

\* "if adjustment.status not in ("draft", "returned")" of update_adjustment
Updatable(status) == status \in {"draft", "returned"}

\* PUT /year-end/adjustments/{id}
UpdateAdjustment(user, adjustment_id, patch) ==
    LET found == FindAdjustment(adjustment_id, user)
    IN  IF ~HasRole(user, {"super_admin", "admin", "accountant", "employee"})
        THEN YearEndRollback(Forbidden)
        ELSE IF IsNone(found)
        THEN YearEndRollback(NotFound("adjustment not found"))
        ELSE IF ~Updatable(Val(found).status)
        THEN YearEndRollback(InvalidState("cannot update", Val(found).status))
        ELSE IF ~OwnOrAdmin(user, Val(found).employee_id)
        THEN YearEndRollback(Forbidden)
        ELSE LET a == ApplyPatch(Val(found), patch)
             IN  /\ adjustments' = [adjustments EXCEPT ![a.id] = a]
                 /\ response' = Response(200, "", "updated", "", <<a>>)
                 /\ UNCHANGED <<adjustment_histories, slips, slip_sessions, now>>

\* "if adjustment.status not in ("draft", "returned")" of submit_adjustment
Submittable(status) == status \in {"draft", "returned"}

\* POST /year-end/adjustments/{id}/submit
SubmitAdjustment(user, adjustment_id) ==
    LET found == FindAdjustment(adjustment_id, user)
    IN  IF ~HasRole(user, {"super_admin", "admin", "accountant", "employee"})
        THEN YearEndRollback(Forbidden)
        ELSE IF IsNone(found)
        THEN YearEndRollback(NotFound("adjustment not found"))
        ELSE IF ~Submittable(Val(found).status)
        THEN YearEndRollback(InvalidState("cannot submit", Val(found).status))
        ELSE IF ~OwnOrAdmin(user, Val(found).employee_id)
        THEN YearEndRollback(Forbidden)
        ELSE LET t == now + 1
                 a == [Val(found) EXCEPT !.status = "submitted",
                                         !.submitted_at = Some(t)]
             IN  /\ now' = t
                 /\ CommitTransition(a, user, "submitted",
                                     Some(Val(found).status), None, 200, "submitted")

ApprovableDraft(status) == status \in {"submitted", "draft"}

\* "if adjustment.status != "submitted"" of approve_adjustment
Approvable(status) == status = "submitted"

\* POST /year-end/adjustments/{id}/approve
ApproveAdjustment(user, adjustment_id) ==
    LET found == FindAdjustment(adjustment_id, user)
    IN  IF ~HasRole(user, {"super_admin", "admin"})
        THEN YearEndRollback(Forbidden)
        ELSE IF IsNone(found)
        THEN YearEndRollback(NotFound("adjustment not found"))
        ELSE IF ~Approvable(Val(found).status)
        THEN YearEndRollback(InvalidState("cannot approve", Val(found).status))
        ELSE LET t == now + 1
                 a == [Val(found) EXCEPT !.status = "approved",
                                         !.approved_at = Some(t),
                                         !.approved_by = Some(user.id)]
             IN  /\ now' = t
                 /\ CommitTransition(a, user, "approved", Some("submitted"),
                                     None, 200, "approved")

\* "if adjustment.status != "submitted"" of return_adjustment
Returnable(status) == status = "submitted"

\* POST /year-end/adjustments/{id}/return
ReturnAdjustment(user, adjustment_id, reason) ==
    LET found == FindAdjustment(adjustment_id, user)
    IN  IF ~HasRole(user, {"super_admin", "admin"})
        THEN YearEndRollback(Forbidden)
        ELSE IF IsNone(found)
        THEN YearEndRollback(NotFound("adjustment not found"))
        ELSE IF ~Returnable(Val(found).status)
        THEN YearEndRollback(InvalidState("cannot return", Val(found).status))
        ELSE LET t == now + 1
                 a == [Val(found) EXCEPT !.status = "returned",
                                         !.returned_at = Some(t),
                                         !.return_reason = Some(reason)]
             IN  /\ now' = t
                 /\ CommitTransition(a, user, "returned", Some("submitted"),
                                     Some(reason), 200, "returned")

\* "if adjustment.status != "approved"" of confirm_adjustment
Confirmable(status) == status = "approved"

TaxesNotSetAccepted == Response(200, "", "taxes not set", "", <<>>)

\* "raise HTTPException(status_code=400)" for an unset annual tax
TaxesNotSet == Response(400, "InvalidState", "taxes not set", "", <<>>)

\* "if adjustment.annual_calculated_tax is None or
\*  adjustment.annual_withheld_tax is None: raise HTTPException(400)"
TaxesSet(adjustment) ==
    ~IsNone(adjustment.annual_calculated_tax) /\ ~IsNone(adjustment.annual_withheld_tax)

AdjustmentAmountReversed(adjustment) ==
    Val(adjustment.annual_withheld_tax) - Val(adjustment.annual_calculated_tax)

\* "adjustment.annual_calculated_tax - adjustment.annual_withheld_tax"
AdjustmentAmount(adjustment) ==
    Val(adjustment.annual_calculated_tax) - Val(adjustment.annual_withheld_tax)

\* POST /year-end/adjustments/{id}/confirm
ConfirmAdjustment(user, adjustment_id) ==
    LET found == FindAdjustment(adjustment_id, user)
    IN  IF ~HasRole(user, {"super_admin", "admin"})
        THEN YearEndRollback(Forbidden)
        ELSE IF IsNone(found)
        THEN YearEndRollback(NotFound("adjustment not found"))
        ELSE IF ~Confirmable(Val(found).status)
        THEN YearEndRollback(InvalidState("cannot confirm", Val(found).status))
        ELSE IF ~TaxesSet(Val(found))
        THEN YearEndRollback(TaxesNotSet)
        ELSE LET t == now + 1
                 a == [Val(found) EXCEPT
                          !.adjustment_amount = Some(AdjustmentAmount(Val(found))),
                          !.status = "confirmed",
                          !.confirmed_at = Some(t),
                          !.confirmed_by = Some(user.id)]
             IN  /\ now' = t
                 /\ CommitTransition(a, user, "confirmed", Some("approved"),
                                     None, 200, "confirmed")

\* "slip_data = {...}" and "TaxWithholdingSlip(...)"
NewSlip(user, adjustment, employee, today) ==
    [company_id |-> user.company_id,
     year_end_adjustment_id |-> adjustment.id,
     employee_id |-> employee.id,
     target_year |-> adjustment.target_year,
     issue_date |-> today,
     slip_data |-> [target_year |-> adjustment.target_year,
                    annual_income |-> adjustment.annual_income,
                    annual_withheld_tax |-> adjustment.annual_withheld_tax,
                    annual_calculated_tax |-> adjustment.annual_calculated_tax,
                    adjustment_amount |-> adjustment.adjustment_amount,
                    basic_deduction |-> adjustment.basic_deduction]]

\* select(TaxWithholdingSlip).where(year_end_adjustment_id == adjustment.id)
SlipsOf(adjustment_id) ==
    { k \in DOMAIN slips : slips[k].year_end_adjustment_id = adjustment_id }

\* "if existing.scalar_one_or_none(): raise HTTPException(409)"
SlipExists(adjustment_id) == SlipsOf(adjustment_id) # {}

\* a slip request that raises before db.add
SlipRefuse(resp) ==
    /\ response' = resp
    /\ UNCHANGED <<adjustments, adjustment_histories, slips, slip_sessions, now>>

\* POST /year-end/adjustments/{id}/withholding-slip, up to db.add(slip):
\* the reads and checks of client c's transaction
SlipBegin(c, user, adjustment_id) ==
    LET found == FindAdjustment(adjustment_id, user)
        employee_ids == IF IsNone(found) THEN {}
                        ELSE { i \in DOMAIN Employees :
                                 /\ Employees[i].id = Val(found).employee_id
                                 /\ Employees[i].company_id = user.company_id }
    IN  /\ IsNone(slip_sessions[c])
        /\ IF ~HasRole(user, {"super_admin", "admin"})
           THEN SlipRefuse(Forbidden)
           ELSE IF IsNone(found)
           THEN SlipRefuse(NotFound("adjustment not found"))
           ELSE IF Val(found).status # "confirmed"
           THEN SlipRefuse(Response(400, "InvalidState", "slip needs confirmed", "", <<>>))
           ELSE IF SlipExists(Val(found).id)
           THEN SlipRefuse(Conflict("slip exists"))
           ELSE IF employee_ids = {}
           THEN SlipRefuse(NotFound("employee not found"))
           ELSE /\ slip_sessions' =
                       [slip_sessions EXCEPT ![c] =
                           Some(NewSlip(user, Val(found),
                                        Employees[CHOOSE i \in employee_ids : TRUE],
                                        now))]
                /\ response' = Response(0, "", "pending", "", <<>>)
                /\ UNCHANGED <<adjustments, adjustment_histories, slips, now>>

\* UniqueConstraint("year_end_adjustment_id", name="uk_tax_withholding_slips")
SlipUniqueViolated(slip) == SlipExists(slip.year_end_adjustment_id)

\* db.flush() and the commit of get_db: the INSERT of client c's slip
SlipFinish(c) ==
    /\ ~IsNone(slip_sessions[c])
    /\ slip_sessions' = [slip_sessions EXCEPT ![c] = None]
    /\ LET slip == Val(slip_sessions[c])
       IN  IF SlipUniqueViolated(slip)
           THEN /\ response' = ServerError("IntegrityError")
                /\ UNCHANGED <<adjustments, adjustment_histories, slips, now>>
           ELSE /\ slips' = Append(slips, slip)
                /\ response' = Response(201, "", "slip", "", <<slip>>)
                /\ UNCHANGED <<adjustments, adjustment_histories, now>>

\* the callers of the year-end endpoints: an admin and an employee
YearEndUsers == {1, 3}

\* adjustment ids in requests (an id is unknown until its row is created)
AdjustmentIds == 1 .. 2

\* bodies of YearEndAdjustmentCreate
CreateBodies ==
    { [employee_id |-> e, target_year |-> 2024, basic_deduction |-> 480000] :
        e \in {1, 2} }

\* bodies of YearEndAdjustmentUpdate (exclude_unset: only the keys sent)
UpdateBodies ==
    << [annual_calculated_tax |-> Some(420000), annual_withheld_tax |-> Some(450000)],
       [annual_calculated_tax |-> None] >>

ReturnReasons == {"certificate missing"}

CreateAdjustmentAction ==
    /\ \E u \in YearEndUsers, body \in CreateBodies : CreateAdjustment(User(u), body)
    /\ PayrollUnchanged
    /\ RatesUnchanged
    /\ CalculatorUnchanged

GetAdjustmentAction ==
    /\ \E u \in YearEndUsers, id \in AdjustmentIds : GetAdjustment(User(u), id)
    /\ PayrollUnchanged
    /\ RatesUnchanged
    /\ CalculatorUnchanged

UpdateAdjustmentAction ==
    /\ \E u \in YearEndUsers, id \in AdjustmentIds, k \in DOMAIN UpdateBodies :
          UpdateAdjustment(User(u), id, UpdateBodies[k])
    /\ PayrollUnchanged
    /\ RatesUnchanged
    /\ CalculatorUnchanged

SubmitAdjustmentAction ==
    /\ \E u \in YearEndUsers, id \in AdjustmentIds : SubmitAdjustment(User(u), id)
    /\ PayrollUnchanged
    /\ RatesUnchanged
    /\ CalculatorUnchanged

ApproveAdjustmentAction ==
    /\ \E u \in YearEndUsers, id \in AdjustmentIds : ApproveAdjustment(User(u), id)
    /\ PayrollUnchanged
    /\ RatesUnchanged
    /\ CalculatorUnchanged

ReturnAdjustmentAction ==
    /\ \E u \in YearEndUsers, id \in AdjustmentIds, reason \in ReturnReasons :
          ReturnAdjustment(User(u), id, reason)
    /\ PayrollUnchanged
    /\ RatesUnchanged
    /\ CalculatorUnchanged

ConfirmAdjustmentAction ==
    /\ \E u \in YearEndUsers, id \in AdjustmentIds : ConfirmAdjustment(User(u), id)
    /\ PayrollUnchanged
    /\ RatesUnchanged
    /\ CalculatorUnchanged

SlipBeginAction ==
    /\ \E c \in Clients, u \in YearEndUsers, id \in AdjustmentIds :
          SlipBegin(c, User(u), id)
    /\ PayrollUnchanged
    /\ RatesUnchanged
    /\ CalculatorUnchanged

SlipFinishAction ==
    /\ \E c \in Clients : SlipFinish(c)
    /\ PayrollUnchanged
    /\ RatesUnchanged
    /\ CalculatorUnchanged

NextYearEnd ==
    \/ CreateAdjustmentAction
    \/ GetAdjustmentAction
    \/ UpdateAdjustmentAction
    \/ SubmitAdjustmentAction
    \/ ApproveAdjustmentAction
    \/ ReturnAdjustmentAction
    \/ ConfirmAdjustmentAction
    \/ SlipBeginAction
    \/ SlipFinishAction

SpecYearEnd == Init /\ [][NextYearEnd]_vars

--------------------------------------------------------------------------
(* InsuranceCalculator._get_rate over arbitrary rate tables                *)

\* the company of the InsuranceCalculator
CurrentCompany == Company.company_id

RatePrefectures == {"Tokyo", "Osaka"}
RateValidFrom == {1, 3}
RateValidTo == {None, Some(4)}
TargetDates == {2, 4, 5}

\* the rows a table can hold: of this company, of another company, global
\* (company_id NULL); health rows carry a prefecture
RateRows ==
    { [company_id |-> c, insurance_type |-> "health", valid_from |-> f,
       valid_to |-> t, prefecture |-> Some(p)] :
         c \in {Some(CurrentCompany), Some(2), None}, f \in RateValidFrom,
         t \in RateValidTo, p \in RatePrefectures }
    \cup
    { [company_id |-> c, insurance_type |-> "pension", valid_from |-> f,
       valid_to |-> t, prefecture |-> None] :
         c \in {Some(CurrentCompany), Some(2), None}, f \in RateValidFrom,
         t \in RateValidTo }

\* the tables of at most MaxRates rows
RateTables ==
    { {} } \cup { { t[i] : i \in 1 .. MaxRates } : t \in [1 .. MaxRates -> RateRows] }

\* the calls the calculator makes: health with the company's prefecture
\* (never empty: "company.health_insurance_prefecture or ..."), the others
\* without
RateLookups ==
    { [insurance_type |-> "health", target_date |-> d, prefecture |-> Some(p)] :
         d \in TargetDates, p \in RatePrefectures }
    \cup
    { [insurance_type |-> "pension", target_date |-> d, prefecture |-> None] :
         d \in TargetDates }

InitRates ==
    /\ EmptyTables
    /\ rate_rows \in RateTables
    /\ lookup = None
    /\ calc_input = None
    /\ calc_output = None

\* one call of _get_rate
FindInsuranceRate(call) ==
    /\ \E rate \in GetRate(rate_rows, CurrentCompany, call.insurance_type, call.target_date, call.prefecture) :
          lookup' = Some([call |-> call, rate |-> rate])
    /\ UNCHANGED rate_rows

FindInsuranceRateAction ==
    /\ \E call \in RateLookups : FindInsuranceRate(call)
    /\ UNCHANGED <<now, response>>
    /\ PayrollUnchanged
    /\ YearEndUnchanged
    /\ CalculatorUnchanged

NextRates == FindInsuranceRateAction

SpecRates == InitRates /\ [][NextRates]_vars

--------------------------------------------------------------------------
(* TaxCalculator.calculate_income_tax over arbitrary tax tables            *)

TaxTableTypes == {"monthly_kou", "daily_kou", "otsu", "hei"}
TaxBrackets == { <<0, Some(1000)>>, <<1000, None>>, <<0, None>> }
TaxValidTo == {None, Some(2)}
TaxDependents == {0, 1}

\* the rows a tax table can hold; tax_amount tells the rows apart
TaxRows ==
    { [table_type |-> tt, valid_from |-> 1, valid_to |-> vt,
       income_from |-> b[1], income_to |-> b[2], dependents_count |-> d,
       tax_amount |-> 100 + b[1] + 10 * d + (IF IsNone(vt) THEN 0 ELSE 1)
                          + (IF IsNone(b[2]) THEN 0 ELSE 2)] :
         tt \in TaxTableTypes, vt \in TaxValidTo, b \in TaxBrackets,
         d \in TaxDependents }

\* the tables of at most MaxTaxRows rows
TaxTables ==
    { {} } \cup { { t[i] : i \in 1 .. MaxTaxRows } : t \in [1 .. MaxTaxRows -> TaxRows] }

\* the arguments of calculate_income_tax
TaxCalls ==
    [taxable_income : {999, 1000, 5000}, tax_category : {"kou", "otsu", "hei"},
     dependents_count : TaxDependents, target_date : {2, 3}, is_monthly : BOOLEAN]

InitTax ==
    /\ EmptyTables
    /\ rate_rows = InsuranceRates
    /\ lookup = None
    /\ \E rows \in TaxTables, call \in TaxCalls :
          calc_input = Some([rows |-> rows, call |-> call])
    /\ calc_output = None

\* one call of calculate_income_tax
CalculateIncomeTaxCall ==
    /\ IsNone(calc_output)
    /\ LET in == Val(calc_input)
       IN  \E tax \in CalculateIncomeTax(in.rows, in.call.taxable_income, in.call.tax_category, in.call.dependents_count, in.call.target_date, in.call.is_monthly) :
              calc_output' = Some(tax)
    /\ UNCHANGED <<calc_input, now, response>>
    /\ PayrollUnchanged
    /\ YearEndUnchanged
    /\ RatesUnchanged

NextTax == CalculateIncomeTaxCall

SpecTax == InitTax /\ [][NextTax]_vars

--------------------------------------------------------------------------
(* PayrollCalculator.calculate over varied employees, attendance, commute  *)
(* details and rate tables                                                 *)

\* salary settings with the tax category and age that go with them
CalcSalaries ==
    { [salary_type |-> "monthly", salary_settings |-> SalarySettings(300000, 0, 0, 0, 0, 160),
       tax_category |-> "kou", dependents_count |-> 1,
       resident_tax_monthly_amount |-> None, birth_date |-> None],
      [salary_type |-> "hourly", salary_settings |-> SalarySettings(0, 0, 965, 0, 0, 160),
       tax_category |-> "otsu", dependents_count |-> 0,
       resident_tax_monthly_amount |-> Some(8000),
       birth_date |-> Some(155 - 45 * 365 - 20)],
      [salary_type |-> "hourly", salary_settings |-> SalarySettings(0, 0, 2400, 0, 0, 160),
       tax_category |-> "hei", dependents_count |-> 0,
       resident_tax_monthly_amount |-> Some(0), birth_date |-> None] }

\* employees rows: every salary with every combination of enrollment flags
CalcEmployees ==
    { [id |-> 2, company_id |-> 1, salary_type |-> sal.salary_type,
       salary_settings |-> sal.salary_settings,
       tax_category |-> sal.tax_category,
       dependents_count |-> sal.dependents_count,
       social_insurance_enrolled |-> f[1],
       pension_insurance_enrolled |-> f[2],
       employment_insurance_enrolled |-> f[3],
       resident_tax_monthly_amount |-> sal.resident_tax_monthly_amount,
       birth_date |-> sal.birth_date, email |-> None] :
         sal \in CalcSalaries, f \in BOOLEAN \X BOOLEAN \X BOOLEAN }

\* attendance_records rows; None = no row
CalcAttendances ==
    { None,
      Some(Attendance(2, Some(20), Some(0), 25, Some(0),
                      Minutes(0, 0, 0, 0, 0, 0, 0, 0))),
      Some(Attendance(2, None, Some(18), 2, Some(9600),
                      Minutes(60, 240, 0, 0, 0, 0, 0, 0))),
      Some(Attendance(2, None, Some(20), 0, Some(9600),
                      Minutes(0, 4200, 0, 0, 0, 0, 0, 60))),
      Some(Attendance(2, Some(20), Some(20), 0, Some(9600),
                      Minutes(60, 4200, 120, 480, 240, 90, 30, 60))) }

\* the commute_details row found; None = no row
CalcCommutes ==
    { None,
      Some([employee_id |-> 2, monthly_cost |-> Some(20000),
            non_taxable_limit |-> Some(15000), effective_from |-> 1,
            effective_to |-> None]),
      Some([employee_id |-> 2, monthly_cost |-> Some(10000),
            non_taxable_limit |-> None, effective_from |-> 1,
            effective_to |-> None]),
      Some([employee_id |-> 2, monthly_cost |-> None,
            non_taxable_limit |-> Some(15000), effective_from |-> 1,
            effective_to |-> None]) }

\* insurance_rates tables: all rates, none, health only, and all rates with
\* an employment rate of 0
CalcRates ==
    { InsuranceRates, {},
      { r \in InsuranceRates : r.insurance_type = "health" },
      { IF r.insurance_type = "employment" THEN [r EXCEPT !.employee_rate = 0] ELSE r :
          r \in InsuranceRates } }

InitCalculator ==
    /\ EmptyTables
    /\ rate_rows = InsuranceRates
    /\ lookup = None
    /\ \E employee \in CalcEmployees, attendance \in CalcAttendances, commute \in CalcCommutes, rates \in CalcRates :
          calc_input = Some([employee |-> employee, attendance |-> attendance,
                             commute |-> commute, rates |-> rates])
    /\ calc_output = None

\* one call of PayrollCalculator.calculate; ot_result is what the
\* OvertimeCalculator returned to it (None without attendance)
PayrollCalculateCall ==
    /\ IsNone(calc_output)
    /\ LET in == Val(calc_input)
           ot_result ==
               IF IsNone(in.attendance) THEN None
               ELSE Some(OvertimeCalculate(
                        BaseHourly(in.employee, BaseSalary(in.employee, in.attendance)),
                        Val(in.attendance).minutes))
       IN  \E o \in PayrollCalculate(in.employee, Periods[1], Company, in.attendance, AllowanceQuery(AllowanceRows, in.employee, Periods[1]), in.commute, in.rates, IncomeTaxTables) :
              calc_output' = Some([outcome |-> o, ot_result |-> ot_result])
    /\ UNCHANGED <<calc_input, now, response>>
    /\ PayrollUnchanged
    /\ YearEndUnchanged
    /\ RatesUnchanged

NextCalculator == PayrollCalculateCall

SpecCalculator == InitCalculator /\ [][NextCalculator]_vars

--------------------------------------------------------------------------

Next ==
    \/ CalculateAction
    \/ ConfirmAction
    \/ CancelAction
    \/ PdfAction

Spec == Init /\ [][Next]_vars

--------------------------------------------------------------------------
(* Properties of the payroll record state machine *)

\* ids of the records of group g
GroupRecords(g) ==
    { r \in DOMAIN records : records[r].payroll_record_group_id = g }

DraftsOf(g) == { r \in GroupRecords(g) : records[r].status = "draft" }

VersionsOf(g) == { records[r].version : r \in GroupRecords(g) }

\* the greatest element of a non-empty set of integers
Greatest(S) == CHOOSE m \in S : \A x \in S : x <= m

\* C1: after any sequence of Calculate, Confirm and Cancel, at most one
\* record of a PayrollRecordGroup has status draft.
C1_AtMostOneDraft ==
    \A g \in DOMAIN groups : Cardinality(DraftsOf(g)) <= 1

\* C2: the versions of the records of every group are exactly
\* 1 .. max(version), and no two records of a group share a version.
C2_VersionsDense ==
    \A g \in DOMAIN groups :
        GroupRecords(g) # {} =>
            /\ VersionsOf(g) = 1 .. Greatest(VersionsOf(g))
            /\ Cardinality(GroupRecords(g)) = Cardinality(VersionsOf(g))

\* C3: for every group with at least one record, current_payroll_record_id
\* is the id of the newest record that is not cancelled: a record of the
\* group, not cancelled, of greater version than every other record of the
\* group that is not cancelled.
C3_CurrentIsNewest ==
    \A g \in DOMAIN groups :
        GroupRecords(g) # {} =>
            /\ ~IsNone(groups[g].current_payroll_record_id)
            /\ LET c == Val(groups[g].current_payroll_record_id)
               IN  /\ c \in GroupRecords(g)
                   /\ records[c].status # "cancelled"
                   /\ \A r \in GroupRecords(g) \ {c} :
                         records[r].status # "cancelled"
                             => records[r].version < records[c].version

\* what the claims compare of a line item: type, code, amount, flags and
\* display order
ItemView(it) ==
    [item_type |-> it.item_type, item_code |-> it.item_code,
     amount |-> it.amount, is_taxable |-> it.is_taxable,
     is_social_insurance_target |-> it.is_social_insurance_target,
     is_employment_insurance_target |-> it.is_employment_insurance_target,
     display_order |-> it.display_order]

\* the rows of item table t that belong to record r
ItemRowsIn(t, r) == { i \in DOMAIN t : t[i].payroll_record_id = r }

\* what a successful Cancel(record_id, reason) by user must have done
CancelEffect(user, record_id, reason) ==
    LET old == records[record_id]
        new_id == Len(records) + 1
        g == old.payroll_record_group_id
    IN  /\ records'[record_id].status = "cancelled"
        /\ records'[record_id].cancellation_reason = Some(reason)
        /\ records'[record_id].cancelled_by = Some(user.id)
        /\ Len(records') = Len(records) + 1
        /\ \A r \in DOMAIN records : r # record_id => records'[r] = records[r]
        /\ records'[new_id].status = "draft"
        /\ records'[new_id].payroll_record_group_id = g
        /\ records'[new_id].version = old.version + 1
        /\ records'[new_id].total_earnings = old.total_earnings
        /\ records'[new_id].total_deductions = old.total_deductions
        /\ records'[new_id].net_pay = old.net_pay
        /\ { ItemView(items'[i]) : i \in ItemRowsIn(items', new_id) }
               = { ItemView(items[i]) : i \in ItemRowsIn(items, record_id) }
        /\ Cardinality(ItemRowsIn(items', new_id))
               = Cardinality(ItemRowsIn(items, record_id))
        /\ groups'[g].current_payroll_record_id = Some(new_id)
        /\ Len(histories') = Len(histories) + 2
        /\ SubSeq(histories', 1, Len(histories)) = histories
        /\ LET h1 == histories'[Len(histories) + 1]
               h2 == histories'[Len(histories) + 2]
           IN  /\ h1.action = "cancelled"
               /\ h1.payroll_record_id = record_id
               /\ h2.action = "created_from_cancellation"
               /\ h2.payroll_record_id = new_id
               /\ Val(h2.new_values).source_record_id = record_id

\* C4: Cancel(record, reason) on a confirmed record of version v sets it to
\* cancelled with the reason and the actor and, in the same step, creates
\* one draft at version v+1 in the same group with identical totals and
\* line items, points the group's current record at it and appends exactly
\* the two history rows 'cancelled' and 'created_from_cancellation'.
C4_CancelForksDraft ==
    [][ \A rq \in RecordRequests, reason \in Reasons :
            ( /\ HasRole(User(rq[1]), {"super_admin", "admin"})
              /\ ~IsNone(FindRecord(rq[2], User(rq[1])))
              /\ records[rq[2]].status = "confirmed"
              /\ CancelPayrollRecord(User(rq[1]), rq[2], reason) )
            => CancelEffect(User(rq[1]), rq[2], reason) ]_vars

\* a cancelled record and the draft that was forked from it
C4_Witness ==
    \E r \in DOMAIN records, h \in DOMAIN histories :
        /\ records[r].status = "cancelled"
        /\ histories[h].action = "created_from_cancellation"
        /\ Val(histories[h].new_values).source_record_id = r
        /\ ItemRowsIn(items, histories[h].payroll_record_id) # {}

TablesUnchanged == UNCHANGED <<groups, records, items, snapshots, histories>>

\* C5: Confirm on a record that is not draft and Cancel on a record that is
\* not confirmed fail with InvalidState naming the record's status and change
\* no table; the only status changes of a record are draft -> confirmed and
\* confirmed -> cancelled.
C5_InvalidStateChangesNothing ==
    [][ /\ \A rq \in RecordRequests :
              ( /\ HasRole(User(rq[1]), {"super_admin", "admin"})
                /\ ~IsNone(FindRecord(rq[2], User(rq[1])))
                /\ records[rq[2]].status # "draft"
                /\ ConfirmPayrollRecord(User(rq[1]), rq[2]) )
              => /\ response'.kind = "InvalidState"
                 /\ response'.status = records[rq[2]].status
                 /\ TablesUnchanged
        /\ \A rq \in RecordRequests, reason \in Reasons :
              ( /\ HasRole(User(rq[1]), {"super_admin", "admin"})
                /\ ~IsNone(FindRecord(rq[2], User(rq[1])))
                /\ records[rq[2]].status # "confirmed"
                /\ CancelPayrollRecord(User(rq[1]), rq[2], reason) )
              => /\ response'.kind = "InvalidState"
                 /\ response'.status = records[rq[2]].status
                 /\ TablesUnchanged
        /\ \A r \in DOMAIN records :
              \/ records'[r].status = records[r].status
              \/ records[r].status = "draft" /\ records'[r].status = "confirmed"
              \/ records[r].status = "confirmed" /\ records'[r].status = "cancelled"
      ]_vars

\* a Cancel of a cancelled record has just been refused
C5_Witness ==
    /\ response.kind = "InvalidState"
    /\ response.detail = "cannot cancel"
    /\ response.status = "cancelled"

SnapshotsOf(r) == { k \in DOMAIN snapshots : snapshots[k].payroll_record_id = r }

C7_SnapshotMatchesRecord ==
    \A r \in DOMAIN records :
        records[r].status = "confirmed" =>
            /\ SnapshotsOf(r) # {}
            /\ \A k \in SnapshotsOf(r) :
                  LET d == snapshots[k].snapshot_data
                  IN  /\ d.record.total_earnings = records[r].total_earnings
                      /\ d.record.total_deductions = records[r].total_deductions
                      /\ d.record.net_pay = records[r].net_pay
                      /\ Len(d.items) = Cardinality(ItemRowsIn(items, r))
                      /\ \A n \in DOMAIN d.items :
                            \E i \in ItemRowsIn(items, r) :
                                /\ items[i].display_order = Some(n)
                                /\ d.items[n].item_type = items[i].item_type
                                /\ d.items[n].item_code = items[i].item_code
                                /\ d.items[n].amount = items[i].amount

\* a confirmed record with deductions and several items
C7_Witness ==
    \E r \in DOMAIN records :
        /\ records[r].status = "confirmed"
        /\ records[r].total_deductions > 0
        /\ Cardinality(ItemRowsIn(items, r)) > 2
        /\ SnapshotsOf(r) # {}

RECURSIVE SumOfType(_, _, _)
\* sum of the amounts of the rows of item table t of record r and item_type ty
SumOfType(t, r, ty) ==
    IF t = <<>> THEN 0
    ELSE (IF Head(t).payroll_record_id = r /\ Head(t).item_type = ty
          THEN Head(t).amount ELSE 0) + SumOfType(Tail(t), r, ty)

\* C8: of every record, total_earnings is the sum of its earning items,
\* total_deductions the sum of its deduction items, and net_pay their
\* difference.
C8_TotalsAreItemSums ==
    \A r \in DOMAIN records :
        /\ records[r].total_earnings = SumOfType(items, r, "earning")
        /\ records[r].total_deductions = SumOfType(items, r, "deduction")
        /\ records[r].net_pay
               = records[r].total_earnings - records[r].total_deductions

\* a calculated record with income tax and resident tax lines and a record
\* forked by a cancellation
C8_Witness ==
    /\ \E i, j \in DOMAIN items :
          /\ items[i].payroll_record_id = items[j].payroll_record_id
          /\ items[i].item_code = "income_tax"
          /\ items[j].item_code = "resident_tax"
    /\ \E h \in DOMAIN histories :
          histories[h].action = "created_from_cancellation"

\* the fields of a record that are not status-transition fields
FrozenView(rec) ==
    [id |-> rec.id, company_id |-> rec.company_id,
     payroll_record_group_id |-> rec.payroll_record_group_id,
     employee_id |-> rec.employee_id,
     payroll_period_id |-> rec.payroll_period_id, version |-> rec.version,
     payment_date |-> rec.payment_date, total_earnings |-> rec.total_earnings,
     total_deductions |-> rec.total_deductions, net_pay |-> rec.net_pay,
     calculation_details |-> rec.calculation_details,
     pdf_path |-> rec.pdf_path]

AllHaveDraft(user, payroll_period_id, employee_ids) ==
    /\ EmployeeQuery(user, employee_ids) # {}
    /\ \A i \in EmployeeQuery(user, employee_ids) :
          \E g \in DOMAIN groups :
              /\ groups[g].employee_id = Employees[i].id
              /\ groups[g].payroll_period_id = payroll_period_id
              /\ groups[g].company_id = user.company_id
              /\ DraftsOf(g) # {}

\* C10: when a draft already exists for (employee, period), Calculate
\* succeeds, returns the existing draft unchanged and creates no record,
\* item or history row and leaves the group's current record alone.
C10_CalculateIdempotent ==
    [][ \A rq \in CalculateRequests :
            ( /\ HasRole(User(rq[1]), {"super_admin", "admin", "accountant"})
              /\ AllHaveDraft(User(rq[1]), rq[2], rq[3])
              /\ CalculatePayroll(User(rq[1]), rq[2], rq[3]) )
            => /\ response'.status_code = 201
               /\ TablesUnchanged
               /\ \A i \in EmployeeQuery(User(rq[1]), rq[3]) :
                     \E k \in DOMAIN response'.body :
                         /\ response'.body[k].employee_id = Employees[i].id
                         /\ response'.body[k].status = "draft"
                         /\ response'.body[k] = records[response'.body[k].id]
      ]_vars

--------------------------------------------------------------------------
(* Properties of concurrent requests *)

\* the drafts forked by cancellations of record r
ForksOf(r) ==
    { h \in DOMAIN histories :
        /\ histories[h].action = "created_from_cancellation"
        /\ Val(histories[h].new_values).source_record_id = r }

\* the 'confirmed' and 'cancelled' history rows of record r
TransitionsOf(r, action) ==
    { h \in DOMAIN histories :
        histories[h].payroll_record_id = r /\ histories[h].action = action }

\* C11: under any interleaving of concurrent Confirm and Cancel requests on
\* one record no update is lost: a record is confirmed at most once and has
\* at most one snapshot, and it is cancelled at most once and at most one
\* replacement draft is forked from it.
C11_NoLostUpdate ==
    \A r \in DOMAIN records :
        /\ Cardinality(SnapshotsOf(r)) <= 1
        /\ Cardinality(TransitionsOf(r, "confirmed")) <= 1
        /\ Cardinality(TransitionsOf(r, "cancelled")) <= 1
        /\ Cardinality(ForksOf(r)) <= 1

\* the records of group g that Calculate inserted
CalculatedRecords(g) ==
    { r \in GroupRecords(g) : TransitionsOf(r, "calculated") # {} }

\* C12: under any interleaving of concurrent Calculate requests for one
\* (employee, period), at most one of the records that Calculate inserted
\* into the group is a draft, and no two of them have the same version.
C12_ConditionalInsert ==
    \A g \in DOMAIN groups :
        /\ Cardinality(CalculatedRecords(g) \cap DraftsOf(g)) <= 1
        /\ \A r1, r2 \in CalculatedRecords(g) :
              r1 # r2 => records[r1].version # records[r2].version

--------------------------------------------------------------------------
(* Properties of the year-end workflow                                     *)

\* a request that was refused and changed neither the adjustments nor
\* their history
AdjustmentRefused ==
    /\ response'.status_code >= 400
    /\ UNCHANGED <<adjustments, adjustment_histories>>

\* C13: the status of a year-end adjustment changes only in these ways:
\* Submit takes draft or returned to submitted, Approve takes submitted to
\* approved, Return takes submitted to returned, Confirm takes approved to
\* confirmed.  Each of these operations attempted in another status fails
\* and leaves the adjustment and its history unchanged; no operation leaves
\* confirmed.
C13_StatusTransitions ==
    [][ /\ \A id \in DOMAIN adjustments :
              LET old == adjustments[id].status
                  new == adjustments'[id].status
              IN  old # new =>
                    \/ /\ old \in {"draft", "returned"} /\ new = "submitted"
                       /\ \E u \in YearEndUsers : SubmitAdjustment(User(u), id)
                    \/ /\ old = "submitted" /\ new = "approved"
                       /\ \E u \in YearEndUsers : ApproveAdjustment(User(u), id)
                    \/ /\ old = "submitted" /\ new = "returned"
                       /\ \E u \in YearEndUsers, reason \in ReturnReasons :
                             ReturnAdjustment(User(u), id, reason)
                    \/ /\ old = "approved" /\ new = "confirmed"
                       /\ \E u \in YearEndUsers : ConfirmAdjustment(User(u), id)
        /\ \A u \in YearEndUsers, id \in DOMAIN adjustments :
              LET st == adjustments[id].status
              IN  /\ (SubmitAdjustment(User(u), id) /\ st \notin {"draft", "returned"})
                        => AdjustmentRefused
                  /\ (ApproveAdjustment(User(u), id) /\ st # "submitted")
                        => AdjustmentRefused
                  /\ \A reason \in ReturnReasons :
                        (ReturnAdjustment(User(u), id, reason) /\ st # "submitted")
                           => AdjustmentRefused
                  /\ (ConfirmAdjustment(User(u), id) /\ st # "approved")
                        => AdjustmentRefused
        /\ \A id \in DOMAIN adjustments :
              LET st == adjustments[id].status
                  admin == User(1)
              IN  /\ (SubmitAdjustment(admin, id) /\ st \in {"draft", "returned"})
                        => adjustments'[id].status = "submitted"
                  /\ (ApproveAdjustment(admin, id) /\ st = "submitted")
                        => adjustments'[id].status = "approved"
                  /\ \A reason \in ReturnReasons :
                        (ReturnAdjustment(admin, id, reason) /\ st = "submitted")
                           => adjustments'[id].status = "returned"
                  /\ (ConfirmAdjustment(admin, id) /\ st = "approved" /\ TaxesSet(adjustments[id]))
                        => adjustments'[id].status = "confirmed"
      ]_vars

\* an operation was refused on a confirmed adjustment
C13_Witness ==
    /\ response.kind = "InvalidState"
    /\ response.status = "confirmed"
    /\ \E id \in DOMAIN adjustments : adjustments[id].status = "confirmed"

\* the columns update_adjustment can write
Editable(adjustment) ==
    <<adjustment.basic_deduction, adjustment.annual_income,
      adjustment.annual_withheld_tax, adjustment.annual_calculated_tax>>

\* C14: Update is allowed only in draft or returned.  An Update in
\* submitted, approved or confirmed fails with InvalidState and changes no
\* field; in draft or returned, for a caller allowed to, it writes the
\* fields sent.
C14_UpdateOnlyDraftOrReturned ==
    [][ /\ \A id \in DOMAIN adjustments :
              Editable(adjustments'[id]) # Editable(adjustments[id])
                 => adjustments[id].status \in {"draft", "returned"}
        /\ \A u \in YearEndUsers, id \in DOMAIN adjustments, k \in DOMAIN UpdateBodies :
              UpdateAdjustment(User(u), id, UpdateBodies[k]) =>
                 IF adjustments[id].status \in {"submitted", "approved", "confirmed"}
                 THEN /\ response'.status_code = 400
                      /\ response'.kind = "InvalidState"
                      /\ UNCHANGED <<adjustments, adjustment_histories>>
                 ELSE IsAdminUser(User(u)) =>
                         /\ response'.status_code = 200
                         /\ adjustments'[id] = ApplyPatch(adjustments[id], UpdateBodies[k])
                         /\ adjustments'[id].status = adjustments[id].status
      ]_vars

\* an Update was refused on an approved adjustment whose taxes an earlier
\* Update had set
C14_Witness ==
    /\ response.detail = "cannot update"
    /\ response.status = "approved"
    /\ \E id \in DOMAIN adjustments :
          /\ adjustments[id].status = "approved"
          /\ TaxesSet(adjustments[id])

\* C15: in every reachable state adjustment_amount is set only if the
\* adjustment is confirmed, and a confirmed adjustment's adjustment_amount
\* is its annual_calculated_tax minus its annual_withheld_tax.
C15_AmountOnlyWhenConfirmed ==
    \A id \in DOMAIN adjustments :
       LET a == adjustments[id]
       IN  /\ ~IsNone(a.adjustment_amount) => a.status = "confirmed"
           /\ a.status = "confirmed" =>
                 /\ TaxesSet(a)
                 /\ a.adjustment_amount =
                       Some(Val(a.annual_calculated_tax) - Val(a.annual_withheld_tax))

\* 420000 calculated and 450000 withheld were confirmed as a refund of 30000
C15_Witness ==
    \E id \in DOMAIN adjustments :
       /\ adjustments[id].status = "confirmed"
       /\ adjustments[id].annual_calculated_tax = Some(420000)
       /\ adjustments[id].annual_withheld_tax = Some(450000)
       /\ adjustments[id].adjustment_amount = Some(-30000)

\* C16: Confirm of an approved adjustment needs both annual_calculated_tax
\* and annual_withheld_tax: when either is unset Confirm fails, the status
\* stays approved, adjustment_amount stays unset and no history row is
\* appended; when both are set an admin's Confirm succeeds.
C16_ConfirmNeedsTaxes ==
    [][ \A u \in YearEndUsers, id \in DOMAIN adjustments :
           (ConfirmAdjustment(User(u), id) /\ adjustments[id].status = "approved") =>
              IF IsNone(adjustments[id].annual_calculated_tax)
                    \/ IsNone(adjustments[id].annual_withheld_tax)
              THEN /\ response'.status_code >= 400
                   /\ adjustments'[id].status = "approved"
                   /\ IsNone(adjustments'[id].adjustment_amount)
                   /\ adjustments' = adjustments
                   /\ adjustment_histories' = adjustment_histories
              ELSE HasRole(User(u), {"super_admin", "admin"}) =>
                      /\ response'.status_code = 200
                      /\ adjustments'[id].status = "confirmed"
      ]_vars

\* a Confirm was refused on an approved adjustment that has the withheld
\* tax but not the calculated tax
C16_Witness ==
    /\ response.detail = "taxes not set"
    /\ response.status_code = 400
    /\ \E id \in DOMAIN adjustments :
          /\ adjustments[id].status = "approved"
          /\ IsNone(adjustments[id].annual_calculated_tax)
          /\ ~IsNone(adjustments[id].annual_withheld_tax)
          /\ IsNone(adjustments[id].adjustment_amount)

\* C17: a withholding slip is generated only for a confirmed adjustment
\* and at most once per adjustment, also when calls overlap: a call on a
\* non-confirmed adjustment fails and creates no slip, a slip is inserted
\* only for a confirmed adjustment that has none, and every call that ends
\* when the adjustment already has a slip fails with Conflict.
C17_SlipAtMostOnce ==
    [][ /\ \A c \in Clients, u \in YearEndUsers, id \in DOMAIN adjustments :
              (SlipBegin(c, User(u), id) /\ adjustments[id].status # "confirmed") =>
                  /\ response'.status_code >= 400
                  /\ UNCHANGED <<slips, slip_sessions>>
        /\ slips' # slips =>
              /\ Len(slips') = Len(slips) + 1
              /\ LET slip == slips'[Len(slips')]
                 IN  /\ adjustments[slip.year_end_adjustment_id].status = "confirmed"
                     /\ ~SlipExists(slip.year_end_adjustment_id)
        /\ \A c \in Clients, id \in DOMAIN adjustments :
              (SlipBegin(c, User(1), id) /\ SlipExists(id)) =>
                  /\ response'.kind = "Conflict"
                  /\ UNCHANGED <<slips, slip_sessions>>
        /\ \A c \in Clients :
              (SlipFinish(c) /\ SlipExists(Val(slip_sessions[c]).year_end_adjustment_id)) =>
                  /\ response'.kind = "Conflict"
                  /\ UNCHANGED slips
      ]_vars

\* the history rows of an adjustment, oldest first
HistoryOf(h, id) == SelectSeq(h, LAMBDA row : row.year_end_adjustment_id = id)

\* the latest history row of every adjustment carries its current status
LatestRowIsStatus(adj, h) ==
    \A id \in DOMAIN adj :
       /\ HistoryOf(h, id) # <<>>
       /\ HistoryOf(h, id)[Len(HistoryOf(h, id))].new_status = Some(adj[id].status)

\* C18: every transition of a year-end adjustment (Submit, Approve, Return,
\* Confirm) appends exactly one history row whose old_status is the status
\* before and whose new_status is the status after; history rows are never
\* changed or removed; the latest history row of an adjustment carries the
\* adjustment's current status.
C18_HistoryFollowsStatus ==
    [][ /\ Len(adjustment_histories') \in {Len(adjustment_histories), Len(adjustment_histories) + 1}
        /\ SubSeq(adjustment_histories', 1, Len(adjustment_histories)) = adjustment_histories
        /\ \A id \in DOMAIN adjustments :
              adjustments'[id].status # adjustments[id].status =>
                 /\ Len(adjustment_histories') = Len(adjustment_histories) + 1
                 /\ LET row == adjustment_histories'[Len(adjustment_histories')]
                    IN  /\ row.year_end_adjustment_id = id
                        /\ row.old_status = Some(adjustments[id].status)
                        /\ row.new_status = Some(adjustments'[id].status)
        /\ (Len(adjustment_histories') = Len(adjustment_histories) + 1
              /\ Len(adjustments') = Len(adjustments)) =>
                 \E id \in DOMAIN adjustments :
                    adjustments'[id].status # adjustments[id].status
        /\ LatestRowIsStatus(adjustments', adjustment_histories')
      ]_vars

\* an adjustment was submitted, returned and submitted again
C18_Witness ==
    \E id \in DOMAIN adjustments :
       /\ adjustments[id].status = "submitted"
       /\ Len(HistoryOf(adjustment_histories, id)) = 4
       /\ HistoryOf(adjustment_histories, id)[3].new_status = Some("returned")
       /\ HistoryOf(adjustment_histories, id)[4].old_status = Some("returned")

\* the callers that hold none of the roles super_admin, admin, accountant
NonAdmins == { u \in YearEndUsers : ~IsAdminUser(User(u)) }

\* the adjustment belongs to the employee identity of the user
Own(user, employee_id) ==
    /\ ~IsNone(GetEmployeeForUser(user))
    /\ Val(GetEmployeeForUser(user)).id = employee_id

\* C19: a non-admin actor can create, read, update or submit only the
\* adjustment of their own employee identity: each of these operations on
\* another employee's adjustment is refused and leaves it unchanged, on
\* their own it is served; a non-admin can never approve, return or
\* confirm.
C19_NonAdminOwnOnly ==
    [][ \A u \in NonAdmins :
          /\ \A body \in CreateBodies :
                CreateAdjustment(User(u), body) =>
                   IF Own(User(u), body.employee_id)
                   THEN response'.status_code \in {201, 409}
                   ELSE /\ response'.status_code >= 400
                        /\ UNCHANGED <<adjustments, adjustment_histories>>
          /\ \A id \in DOMAIN adjustments :
                LET own == Own(User(u), adjustments[id].employee_id)
                    Refused == /\ response'.status_code >= 400
                               /\ response'.body = <<>>
                               /\ UNCHANGED <<adjustments, adjustment_histories>>
                IN  /\ GetAdjustment(User(u), id) =>
                          IF own THEN response'.body = <<adjustments[id]>> ELSE Refused
                    /\ \A k \in DOMAIN UpdateBodies :
                          UpdateAdjustment(User(u), id, UpdateBodies[k]) =>
                             IF own /\ adjustments[id].status \in {"draft", "returned"}
                             THEN response'.status_code = 200
                             ELSE Refused
                    /\ SubmitAdjustment(User(u), id) =>
                          IF own /\ adjustments[id].status \in {"draft", "returned"}
                          THEN adjustments'[id].status = "submitted"
                          ELSE Refused
                    /\ ApproveAdjustment(User(u), id) =>
                          (Refused /\ response'.kind = "PermissionDenied")
                    /\ \A reason \in ReturnReasons :
                          ReturnAdjustment(User(u), id, reason) =>
                             (Refused /\ response'.kind = "PermissionDenied")
                    /\ ConfirmAdjustment(User(u), id) =>
                          (Refused /\ response'.kind = "PermissionDenied")
      ]_vars

\* an employee who created and submitted their own adjustment was denied
\* another employee's adjustment
C19_Witness ==
    /\ response.kind = "PermissionDenied"
    /\ \E id \in DOMAIN adjustments : adjustments[id].employee_id = 2
    /\ \E k \in DOMAIN adjustment_histories :
          /\ adjustment_histories[k].action = "submitted"
          /\ adjustment_histories[k].changed_by = Some(3)
    /\ \E k \in DOMAIN adjustment_histories :
          /\ adjustment_histories[k].action = "created"
          /\ adjustment_histories[k].changed_by = Some(3)

--------------------------------------------------------------------------
(* Properties of the rate lookup                                           *)

\* the row is of the type asked for, its validity window holds the target
\* date (no valid_to = open) and, for health, it is of the prefecture asked
\* for
Covers(r, call) ==
    /\ r.insurance_type = call.insurance_type
    /\ r.valid_from <= call.target_date
    /\ (IsNone(r.valid_to) \/ call.target_date <= Val(r.valid_to))
    /\ (call.insurance_type = "health" => r.prefecture = call.prefecture)

TenantRows(call) ==
    { r \in rate_rows : r.company_id = Some(CurrentCompany) /\ Covers(r, call) }

GlobalRows(call) ==
    { r \in rate_rows : IsNone(r.company_id) /\ Covers(r, call) }

\* rate is a row of scope with the greatest valid_from
NewestOf(scope, rate) ==
    /\ ~IsNone(rate)
    /\ Val(rate) \in scope
    /\ \A q \in scope : q.valid_from <= Val(rate).valid_from

\* C20: for every rate table, the lookup returns a row of this company
\* with the greatest valid_from among this company's rows that cover the
\* call, when there is one; otherwise a global row chosen the same way;
\* otherwise nothing.  A company row and a global row with the same
\* valid_from give the company row.
C20_TenantThenGlobal ==
    ~IsNone(lookup) =>
        LET call == Val(lookup).call
            rate == Val(lookup).rate
        IN  IF TenantRows(call) # {} THEN NewestOf(TenantRows(call), rate)
            ELSE IF GlobalRows(call) # {} THEN NewestOf(GlobalRows(call), rate)
            ELSE IsNone(rate)

\* a company row and a global row with the same valid_from both cover the
\* call and the company row was returned
C20_Witness ==
    /\ ~IsNone(lookup)
    /\ ~IsNone(Val(lookup).rate)
    /\ Val(Val(lookup).rate).company_id = Some(CurrentCompany)
    /\ Val(lookup).call.insurance_type = "health"
    /\ \E g \in GlobalRows(Val(lookup).call) :
          g.valid_from = Val(Val(lookup).rate).valid_from

\* the rows of the scope the lookup answers from that have the greatest
\* valid_from
NewestCovering(call) ==
    LET scope == IF TenantRows(call) # {} THEN TenantRows(call) ELSE GlobalRows(call)
    IN  { r \in scope : \A q \in scope : q.valid_from <= r.valid_from }

\* C21: when two rows of one scope with the same type and prefecture both
\* cover the target date and tie on valid_from, the lookup reports the
\* data error (AmbiguousRate) and returns neither row.
C21_TieIsAmbiguous ==
    ~IsNone(lookup) =>
        (Cardinality(NewestCovering(Val(lookup).call)) > 1
            => Val(lookup).rate \notin { Some(r) : r \in NewestCovering(Val(lookup).call) })

--------------------------------------------------------------------------
(* Properties of the calculators                                           *)

\* the table the claim assigns to a tax category
ClaimedTable(tax_category, is_monthly) ==
    CASE tax_category = "kou" /\ is_monthly -> "monthly_kou"
      [] tax_category = "kou" /\ ~is_monthly -> "daily_kou"
      [] tax_category = "otsu" -> "otsu"
      [] tax_category = "hei" -> "hei"

\* the rows of the claimed table valid on the date, whose bracket
\* [income_from, income_to) holds the taxable amount and whose
\* dependents_count is the one asked for
ClaimedRows(rows, call) ==
    { t \in rows :
        /\ t.table_type = ClaimedTable(call.tax_category, call.is_monthly)
        /\ t.valid_from <= call.target_date
        /\ (IsNone(t.valid_to) \/ call.target_date <= Val(t.valid_to))
        /\ t.income_from <= call.taxable_income
        /\ (IsNone(t.income_to) \/ call.taxable_income < Val(t.income_to))
        /\ t.dependents_count = call.dependents_count }

\* x = floor(taxable * 0.0358)
IsFloorOf358(x, taxable) ==
    10000 * x <= 358 * taxable /\ 358 * taxable < 10000 * (x + 1)

\* C22: calculate_income_tax returns the tax_amount of a row of the table
\* of the category (monthly_kou/daily_kou for kou by is_monthly, otsu, hei)
\* that is valid on the date, whose [income_from, income_to) holds the
\* taxable amount and whose dependents_count is equal; without such a row
\* it returns floor(taxable * 0.0358) for otsu and hei and 0 for kou.
C22_IncomeTaxLookup ==
    (~IsNone(calc_input) /\ ~IsNone(calc_output) /\ "rows" \in DOMAIN Val(calc_input)) =>
        LET in == Val(calc_input)
            tax == Val(calc_output)
        IN  IF ClaimedRows(in.rows, in.call) # {}
            THEN tax \in { t.tax_amount : t \in ClaimedRows(in.rows, in.call) }
            ELSE IF in.call.tax_category = "kou" THEN tax = 0
            ELSE IsFloorOf358(tax, in.call.taxable_income)

\* a lookup exactly at the exclusive upper end of the only bracket fell
\* back to the 3.58 percent estimate
C22_Witness ==
    /\ ~IsNone(calc_input) /\ ~IsNone(calc_output)
    /\ "rows" \in DOMAIN Val(calc_input)
    /\ Val(calc_input).call.tax_category = "otsu"
    /\ Val(calc_input).call.taxable_income = 1000
    /\ \E t \in Val(calc_input).rows :
          /\ t.table_type = "otsu" /\ t.income_to = Some(1000)
          /\ t.dependents_count = Val(calc_input).call.dependents_count
          /\ IsNone(t.valid_to)
    /\ Val(calc_output) = 35

\* a PayrollCalculator call was made and returned a result
Calculated ==
    /\ ~IsNone(calc_input) /\ ~IsNone(calc_output)
    /\ "employee" \in DOMAIN Val(calc_input)
    /\ Val(calc_output).outcome.ok

\* the items of the result
ResultItems == Val(calc_output).outcome.result.items

RECURSIVE SumAmounts(_)
\* sum of the amounts of a sequence of items
SumAmounts(its) ==
    IF its = <<>> THEN 0 ELSE Head(its).amount + SumAmounts(Tail(its))

\* the item codes of the premium components
PremiumCodes ==
    {"overtime_within", "overtime_statutory", "over60h_premium", "night_work",
     "holiday_work", "non_statutory_holiday", "night_overtime", "night_holiday",
     "night_overtime_holiday"}

IsPremiumItem(it) == it.item_type = "earning" /\ it.item_code \in PremiumCodes

\* C23: the premium earning items of the result sum to the
\* OvertimeCalculator's total_overtime_pay, for every attendance record.
C23_PremiumItemsSumToTotal ==
    (Calculated /\ ~IsNone(Val(calc_output).ot_result)) =>
        SumAmounts(SelectSeq(ResultItems, IsPremiumItem)) = Val(Val(calc_output).ot_result).total_overtime_pay

\* C24: no item of the result has a negative amount and total_earnings is
\* not negative; a monthly base salary that the absence deduction would
\* turn negative is 0.
C24_NoNegativeAmounts ==
    Calculated =>
        /\ \A k \in DOMAIN ResultItems : ResultItems[k].amount >= 0
        /\ Val(calc_output).outcome.result.total_earnings >= 0

CommuteNontaxableOf(commute) ==
    IF IsNone(commute) \/ OrElse(Val(commute).monthly_cost, 0) = 0
    THEN 0
    ELSE Min(Val(Val(commute).monthly_cost), OrElse(Val(commute).non_taxable_limit, 150000))

IsEarningItem(it) == it.item_type = "earning"

SocialCodes == <<"health_insurance", "care_insurance", "pension_insurance", "employment_insurance">>

IsSocialItem(it) == it.item_type = "deduction" /\ \E k \in DOMAIN SocialCodes : it.item_code = SocialCodes[k]

\* C26: the taxable base the income tax is looked up with is
\* max(0, gross - commute_nontaxable - social_insurance_total): gross is the
\* sum of the earning items, commute_nontaxable is
\* min(monthly_cost, non_taxable_limit or 150000) or 0 without a commute
\* row, and the social total is the sum of the four insurance deductions.
C26_TaxableBase ==
    Calculated =>
        Val(calc_output).outcome.result.details.taxable_earnings =
            Max(0, SumAmounts(SelectSeq(ResultItems, IsEarningItem))
                       - CommuteNontaxableOf(Val(calc_input).commute)
                       - SumAmounts(SelectSeq(ResultItems, IsSocialItem)))

C26_Witness ==
    /\ Calculated
    /\ CommuteNontaxableOf(Val(calc_input).commute) > 0
    /\ SumAmounts(SelectSeq(ResultItems, IsSocialItem)) > 0
    /\ Val(calc_output).outcome.result.details.taxable_earnings > 0

SocialRank(it) == CHOOSE k \in DOMAIN SocialCodes : it.item_code = SocialCodes[k]

SocialItems == SelectSeq(ResultItems, IsSocialItem)

EnrolledFor(employee, code) ==
    CASE code \in {"health_insurance", "care_insurance"} -> employee.social_insurance_enrolled
      [] code = "pension_insurance" -> employee.pension_insurance_enrolled
      [] code = "employment_insurance" -> employee.employment_insurance_enrolled

\* C27: the social insurance deductions appear in the order health, care,
\* pension, employment, each at most once and only when the employee's
\* enrolment flag for it is set and its amount is not zero; with no rate
\* row for a type its line is omitted; no deduction item has amount 0.
C27_SocialDeductionLines ==
    Calculated =>
        /\ \A i, j \in DOMAIN SocialItems :
               i < j => SocialRank(SocialItems[i]) < SocialRank(SocialItems[j])
        /\ \A i \in DOMAIN SocialItems :
               /\ EnrolledFor(Val(calc_input).employee, SocialItems[i].item_code)
               /\ SocialItems[i].amount # 0
        /\ \A i \in DOMAIN SocialItems, t \in {"health", "pension", "employment"} :
               (\A r \in Val(calc_input).rates : r.insurance_type # t) =>
                   SocialItems[i].item_code \notin
                       (CASE t = "health" -> {"health_insurance", "care_insurance"}
                          [] t = "pension" -> {"pension_insurance"}
                          [] t = "employment" -> {"employment_insurance"})
        /\ \A k \in DOMAIN ResultItems :
               ResultItems[k].item_type = "deduction" => ResultItems[k].amount # 0

C27_Witness ==
    /\ Calculated
    /\ Len(SocialItems) = 4
    /\ Val(calc_input).employee.social_insurance_enrolled

C27_WitnessOmitted ==
    /\ Calculated
    /\ Val(calc_input).employee.pension_insurance_enrolled
    /\ \A r \in Val(calc_input).rates : r.insurance_type # "pension"
    /\ Len(SocialItems) > 0

C27_WitnessZeroAmount ==
    /\ Calculated
    /\ Val(calc_input).employee.employment_insurance_enrolled
    /\ \E r \in Val(calc_input).rates : r.insurance_type = "employment" /\ r.employee_rate = 0
    /\ Len(SocialItems) > 0

OtInput == Val(Val(calc_input).attendance).minutes

OtBaseHourly == Val(calc_output).outcome.result.details.base_hourly_rate

OtResult == Val(Val(calc_output).ot_result)

\* C28: statutory overtime is split at MONTHLY_OVERTIME_THRESHOLD minutes:
\* over60h = max(0, statutory - 3600), normal = statutory - over60h;
\* overtime_statutory_pay = floor(baseHourly / 60 * normal * 1.25) and
\* over60h_premium_pay = floor(baseHourly / 60 * over60h * 1.50).
C28_Over60hSplit ==
    (Calculated /\ ~IsNone(Val(calc_output).ot_result)) =>
        LET statutory == OtInput.overtime_statutory_minutes
            over60h == Max(0, statutory - MONTHLY_OVERTIME_THRESHOLD)
            normal == statutory - over60h
        IN  /\ OtResult.overtime_statutory_pay = (OtBaseHourly * normal * 125) \div 6000
            /\ OtResult.over60h_premium_pay = (OtBaseHourly * over60h * 150) \div 6000

--------------------------------------------------------------------------
(* GET /reports/bank-transfer: the Zengin file                             *)
(* A str is a sequence of characters; a character is a one-character      *)
(* string, or a name in braces for a character outside ASCII.             *)

MaxPayees == 2

\* characters that Shift-JIS encodes in two bytes (kanji, full-width kana)
DoubleByte == {"{yama}", "{da}", "{ta}", "{rou}", "{kabu}"}

Spaces(n) == [i \in 1 .. n |-> " "]

\* str.ljust(width): pads on the right, never truncates
Ljust(s, width) == IF Len(s) >= width THEN s ELSE s \o Spaces(width - Len(s))

\* str.rjust(width, "0"): pads on the left, never truncates
Rjust0(s, width) == IF Len(s) >= width THEN s ELSE [i \in 1 .. width - Len(s) |-> "0"] \o s

\* s[:k]
Slice(s, k) == SubSeq(s, 1, Min(k, Len(s)))

DigitChars == <<"0", "1", "2", "3", "4", "5", "6", "7", "8", "9">>

RECURSIVE NatStr(_)
NatStr(n) == IF n < 10 THEN <<DigitChars[n + 1]>> ELSE NatStr(n \div 10) \o <<DigitChars[(n % 10) + 1]>>

\* str(n) of an int
IntStr(n) == IF n < 0 THEN <<"-">> \o NatStr(-n) ELSE NatStr(n)

\* "x or d" of a nullable str
StrOr(x, d) == IF IsNone(x) \/ Val(x) = <<>> THEN d ELSE Val(x)

\* date.strftime("%m%d")
StrfMonthDay(d) == Rjust0(NatStr(d.month), 2) \o Rjust0(NatStr(d.day), 2)

\* str.encode("shift_jis"): one byte <<c, 0>> for a single-byte character,
\* the two bytes <<c, 1>>, <<c, 2>> for a double-byte one
RECURSIVE ShiftJis(_)
ShiftJis(s) ==
    CASE Len(s) = 0 -> <<>>
      [] Len(s) = 1 -> IF s[1] \in DoubleByte THEN << <<s[1], 1>>, <<s[1], 2>> >>
                       ELSE << <<s[1], 0>> >>
      [] OTHER -> LET half == Len(s) \div 2
                  IN  ShiftJis(SubSeq(s, 1, half)) \o ShiftJis(SubSeq(s, half + 1, Len(s)))

\* the rows of the query, .order_by(Employee.employee_code)
ConfirmedRows(table, company_id, payroll_period_id) ==
    LET hit(r) == /\ r.company_id = company_id
                  /\ r.payroll_period_id = payroll_period_id
                  /\ r.status = "confirmed"
        first(r) == hit(r) /\ r.emp.employee_code = <<"E", "1">>
        second(r) == hit(r) /\ r.emp.employee_code = <<"E", "2">>
    IN  SelectSeq(table, first) \o SelectSeq(table, second)

ZenginHeader(company, payment_date) ==
    LET header == <<"1">> \o <<"2", "1">> \o <<"0">> \o Spaces(10)
                    \o Ljust(Slice(company.name, 40), 40)
                    \o StrfMonthDay(payment_date)
                    \o Spaces(15) \o Spaces(15) \o Spaces(4) \o Spaces(7) \o Spaces(17)
    IN  Ljust(Slice(header, 120), 120)

ZenginData(record, emp) ==
    LET account_type_code == IF emp.account_type = Some("savings") THEN "1" ELSE "2"
        data == <<"2">> \o Spaces(4)
                  \o Ljust(Slice(StrOr(emp.bank_name, <<>>), 15), 15)
                  \o Spaces(3)
                  \o Ljust(Slice(StrOr(emp.branch_name, <<>>), 15), 15)
                  \o Spaces(4)
                  \o <<account_type_code>>
                  \o Ljust(Slice(StrOr(emp.account_number, <<>>), 7), 7)
                  \o Ljust(Slice(StrOr(emp.account_holder, emp.last_name \o emp.first_name), 30), 30)
                  \o Rjust0(IntStr(record.net_pay), 10)
                  \o <<"0">> \o Spaces(20)
    IN  Ljust(Slice(data, 120), 120)

ZenginTrailer(record_count, total_amount) ==
    LET trailer == <<"8">> \o Rjust0(IntStr(record_count), 6)
                     \o Rjust0(IntStr(total_amount), 12) \o Spaces(101)
    IN  Ljust(Slice(trailer, 120), 120)

RECURSIVE SumNetPay(_)
SumNetPay(rows) == IF rows = <<>> THEN 0 ELSE Head(rows).net_pay + SumNetPay(Tail(rows))

\* bank_transfer: 404 without confirmed rows; otherwise the lines, each
\* followed by "\r\n" in the body, encoded in Shift-JIS, and the
\* BankTransferExport row
BankTransfer(company, table, payroll_period_id) ==
    LET rows == ConfirmedRows(table, company.company_id, payroll_period_id)
    IN  IF rows = <<>>
        THEN [status |-> 404]
        ELSE LET payment_date == rows[1].payment_date
                 record_count == Len(rows)
                 total_amount == SumNetPay(rows)
                 lines == <<ZenginHeader(company, payment_date)>>
                            \o [k \in 1 .. Len(rows) |-> ZenginData(rows[k], rows[k].emp)]
                            \o <<ZenginTrailer(record_count, total_amount)>>
                            \o << <<"9">> \o Spaces(119) >>
             IN  [status |-> 200,
                  body |-> [k \in 1 .. Len(lines) |-> ShiftJis(lines[k])],
                  export |-> [company_id |-> company.company_id,
                              payment_date |-> payment_date,
                              record_count |-> record_count,
                              total_amount |-> total_amount]]

\* companies rows: a name in half-width characters, a name in kanji
ZenginCompanies ==
    { [company_id |-> 1, name |-> <<"A", "C", "M", "E">>],
      [company_id |-> 1, name |-> <<"{kabu}", "{yama}", "{da}">>] }

\* employees rows: bank details in half-width characters with an account
\* holder; no bank details, so the holder is last_name + first_name
ZenginEmployees ==
    { [employee_code |-> <<"E", "1">>, last_name |-> <<"{yama}", "{da}">>,
       first_name |-> <<"{ta}", "{rou}">>, bank_name |-> Some(<<"B", "A", "N", "K">>),
       branch_name |-> Some(<<"M", "A", "I", "N">>), account_type |-> Some("savings"),
       account_number |-> Some(<<"1", "2", "3", "4", "5", "6", "7">>),
       account_holder |-> Some(<<"Y", "A", "M", "A", "D", "A">>)],
      [employee_code |-> <<"E", "2">>, last_name |-> <<"{yama}", "{da}">>,
       first_name |-> <<"{rou}">>, bank_name |-> None, branch_name |-> None,
       account_type |-> None, account_number |-> None, account_holder |-> None] }

\* payroll_records joined with employees
ZenginRecords ==
    { [company_id |-> 1, payroll_period_id |-> 1, status |-> st, net_pay |-> n,
       payment_date |-> [month |-> 5, day |-> 25], emp |-> e] :
         st \in {"confirmed", "draft"}, n \in {250055, 198000, -8000}, e \in ZenginEmployees }
    \cup { [company_id |-> 1, payroll_period_id |-> 2, status |-> "confirmed",
            net_pay |-> 198000, payment_date |-> [month |-> 6, day |-> 25],
            emp |-> CHOOSE e \in ZenginEmployees : e.account_holder # None] }

ZenginTables == UNION { [1 .. n -> ZenginRecords] : n \in 0 .. MaxPayees }

InitZengin ==
    /\ EmptyTables
    /\ rate_rows = InsuranceRates
    /\ lookup = None
    /\ \E company \in ZenginCompanies, table \in ZenginTables :
          calc_input = Some([company |-> company, payroll_records |-> table])
    /\ calc_output = None

BankTransferCall ==
    /\ IsNone(calc_output)
    /\ calc_output' = Some(BankTransfer(Val(calc_input).company,
                                        Val(calc_input).payroll_records, 1))
    /\ UNCHANGED <<calc_input, now, response>>
    /\ PayrollUnchanged
    /\ YearEndUnchanged
    /\ RatesUnchanged

NextZengin == BankTransferCall

SpecZengin == InitZengin /\ [][NextZengin]_vars

ZenginDone == ~IsNone(calc_output) /\ Val(calc_output).status = 200

ZenginBody == Val(calc_output).body

\* the characters of an encoded record
Chars(bytes) == [k \in 1 .. Len(bytes) |-> bytes[k][1]]

IsDigits(s) == \A k \in DOMAIN s : \E d \in DOMAIN DigitChars : DigitChars[d] = s[k]

RECURSIVE NumberOf(_)
NumberOf(s) ==
    IF s = <<>> THEN 0
    ELSE 10 * NumberOf(SubSeq(s, 1, Len(s) - 1))
           + (CHOOSE d \in 0 .. 9 : DigitChars[d + 1] = s[Len(s)])

ConfirmedOfPeriod(r) == r.status = "confirmed" /\ r.payroll_period_id = 1

IsDataRecord(bytes) == bytes[1][1] = "2"

\* C25: the file has one data record (class 2) per confirmed payroll record
\* of the period; its trailer is "8", the number of data records as 6
\* digits, the sum of their net_pay as 12 digits and 101 spaces; every
\* record of the file is 120 bytes long.
C25_ZenginFile ==
    ZenginDone =>
        LET confirmed == SelectSeq(Val(calc_input).payroll_records, ConfirmedOfPeriod)
            trailer == Chars(ZenginBody[Len(ZenginBody) - 1])
        IN  /\ Len(SelectSeq(ZenginBody, IsDataRecord)) = Len(confirmed)
            /\ trailer[1] = "8"
            /\ IsDigits(SubSeq(trailer, 2, 7))
            /\ NumberOf(SubSeq(trailer, 2, 7)) = Len(confirmed)
            /\ IsDigits(SubSeq(trailer, 8, 19))
            /\ NumberOf(SubSeq(trailer, 8, 19)) = SumNetPay(confirmed)
            /\ SubSeq(trailer, 20, Len(trailer)) = Spaces(101)
            /\ \A k \in DOMAIN ZenginBody : Len(ZenginBody[k]) = 120

ConfirmedOf(g) == { r \in GroupRecords(g) : records[r].status = "confirmed" }

\* C29: after any sequence of Calculate, Confirm and Cancel, at most one
\* record of a PayrollRecordGroup has status confirmed, so the confirmed
\* rows of a period that the bank-transfer file and the payroll ledger
\* select hold at most one row per employee.
C29_AtMostOneConfirmed ==
    /\ \A g \in DOMAIN groups : Cardinality(ConfirmedOf(g)) <= 1
    /\ \A r1, r2 \in DOMAIN records :
           (/\ records[r1].status = "confirmed"
            /\ records[r2].status = "confirmed"
            /\ records[r1].payroll_period_id = records[r2].payroll_period_id
            /\ records[r1].employee_id = records[r2].employee_id) => r1 = r2

--------------------------------------------------------------------------
(* The year-end workflow under users who keep working on an adjustment:   *)
(* an operation that changes an adjustment, if it is possible again and   *)
(* again, is eventually performed.                                        *)

Advance(id) ==
    /\ id \in DOMAIN adjustments
    /\ NextYearEnd
    /\ adjustments'[id] # adjustments[id]

SpecYearEndFair == SpecYearEnd /\ \A id \in AdjustmentIds : SF_vars(Advance(id))

IsConfirmed(id) == id \in DOMAIN adjustments /\ adjustments[id].status = "confirmed"

ApprovedWithoutTaxes(id) ==
    /\ id \in DOMAIN adjustments
    /\ adjustments[id].status = "approved"
    /\ ~TaxesSet(adjustments[id])

\* C30: the workflow never gets stuck short of confirmation; in particular
\* an adjustment that reached approved with annual_calculated_tax or
\* annual_withheld_tax unset can still have them set and be confirmed:
\* with users who perform the operations that remain possible it reaches
\* confirmed.
C30_NeverStuck ==
    \A id \in AdjustmentIds :
        ApprovedWithoutTaxes(id) ~> IsConfirmed(id)

\* an adjustment approved without its taxes is never changed again
ApprovedWithoutTaxesIsFinal ==
    [][\A id \in AdjustmentIds :
          ApprovedWithoutTaxes(id) => adjustments'[id] = adjustments[id]]_vars

==========================================================================
